---------------------------- MODULE Spec2Model ----------------------------
(***************************************************************************)
(* Model of the download orchestration core of datacite-data-file-dl:      *)
(*   - CredentialManager (auth.py): credentials, cached client handle,     *)
(*     refresh counter and the lock, with one process per calling thread;  *)
(*   - the retry engine (retry.py): retry_with_backoff and                 *)
(*     retry_with_credential_refresh as one sequential retry sequence;     *)
(*   - ProgressTracker (progress.py): the in-memory map, its lock and the  *)
(*     checkpoint document, with one process per calling worker;           *)
(*   - download_file_with_retry (download.py): temporary file, checksum    *)
(*     verification, rename and cleanup on one output directory;           *)
(*   - the download phase of main (__main__.py): the sequential loop and   *)
(*     the thread pool running download_worker, with user interrupts.      *)
(*   - successive runs of main on one output directory (SpecResume), the   *)
(*     tracker with clear, failing saves and readers (SpecTrackerOps);     *)
(*   - the functions should_download_file, safe_join, verify_checksum and  *)
(*     is_expiring_soon / seconds_until_expiry, each applied to arguments  *)
(*     drawn from bounded sets (SpecFilter, SpecSafeJoin, SpecChecksum,    *)
(*     SpecExpiry), and likewise the relative path of a key, the           *)
(*     outcomes of fetch_credentials and the checkpoint entry written by   *)
(*     each mode (SpecRelPath, SpecFetch, SpecEntry).                      *)
(* Each component has its own specification (SpecAuth, SpecGet, SpecRetry, *)
(* FairSpecRetry, SpecTracker, SpecDownload, SpecOrch, FairSpecOrch) over  *)
(* the shared                                                              *)
(* variable tuple; a specification leaves the variables of the other       *)
(* components at their initial values.                                     *)
(***************************************************************************)
EXTENDS Integers, Sequences, FiniteSets, TLC

VARIABLES
    \* ---- CredentialManager (auth.py) ----
    credentials,      \* self._credentials: NoCreds or [id, fetched_at]
    client,           \* self._client: 0 (None) or the id of the credentials it was built from
    refresh_count,    \* self._refresh_count
    lock,             \* self._lock: 0 (free) or the holding thread
    now,              \* time.time()
    fetches,          \* number of fetch_credentials() requests issued so far
    ncalls,           \* number of manager operations started so far
    pc,               \* per thread: position inside the running operation
    op,               \* per thread: the operation being run
    result,           \* per thread: value returned (handle id), Raised, or 0
    credsAtReturn,    \* per thread: id of self._credentials when the handle was returned
    entry,            \* the manager's fields when the lock holder entered the with block
    path,             \* per thread: "fast" / "slow" path taken by get_client
    \* ---- retry engine (retry.py) ----
    mode,             \* "plain" (retry_with_backoff) or "cred" (retry_with_credential_refresh)
    hasManager,       \* credential_manager is not None
    max_retries,      \* the max_retries argument
    base_delay,       \* the base_delay argument
    max_delay,        \* the max_delay argument
    script,           \* outcome of the i-th invocation of the wrapped operation
    rpc,              \* position inside the retry function
    attempt,          \* loop variable `attempt`
    calls,            \* number of invocations of the wrapped operation so far
    callClient,       \* per invocation: the client passed (0 none, 1 get_client's, 2 refreshed)
    rclient,          \* local variable `client`
    credential_refreshed, \* local variable `credential_refreshed`
    refreshCalls,     \* number of force_refresh() calls made by this sequence
    sleeps,           \* sequence of [after |-> attempt, delay |-> d] for each time.sleep
    last_exception,   \* 0, or the invocation index whose error is held in last_exception
    outcome,          \* how the sequence ended: [kind, inv], inv the invocation whose
                      \* result or error reaches the caller
    \* ---- ProgressTracker (progress.py) ----
    tfiles,           \* self.files: function from the marked paths to FileStatus records
    disk,             \* the checkpoint document: NoDocument or [valid, files]
    tlock,            \* self._lock (RLock): [owner, count]
    tpc,              \* per worker: position inside mark_complete / save
    targ,             \* per worker: arguments (path, size, checksum) of the running call
    tdata,            \* per worker: local `data["files"]` built by save()
    marked,           \* per worker: paths it has called mark_complete for
    crashed,          \* the process was killed
    fresh,            \* result of constructing a new ProgressTracker on the directory
    \* ---- download_file_with_retry (download.py) ----
    fs,               \* the output directory: per local path, Absent or [obj, q]
    dl,               \* the running call: position, arguments, attempt, error raised
    \* ---- download phase of main (__main__.py) and download_worker ----
    omode,            \* "sequential" (_download_sequential) or "pool" (_download_parallel)
    oworkers,         \* config.workers: max_workers of the ThreadPoolExecutor
    behaviour,        \* per listed object: how the storage / path check behaves for it
    mpc,              \* position of the main thread
    mcur,             \* the object of the result the main thread is handling (0: none)
    idx,              \* objects taken from to_download by the loop / submitted so far
    queue,            \* the executor's work queue: submitted tasks not yet started
    wpc,              \* per pool thread: position inside download_worker
    wobj,             \* per pool thread: the object of its running task (0: none)
    futures,          \* per object: state of its future
    olocks,           \* holders of the credential, tracker and aggregate-progress locks
    downloaded,       \* keys appended to `downloaded`
    failed,           \* the `failed` counter
    failedKeys,       \* keys logged as "Failed to download" / "Skipping unsafe path"
    ofiles,           \* keys whose file is at its final path
    checkpointed,     \* keys passed to tracker.mark_complete
    agg,              \* AggregateProgress counters [completed, failed]
    interrupted,      \* a KeyboardInterrupt was delivered to the main thread
    pendingAtInterrupt, \* tasks that had not started when the interrupt was delivered
    exit_code,        \* NotExited, an ExitCode, or Uncaught
    prev,             \* outcome of the sequential run kept for comparison with the pool run
    \* ---- a function under test: its arguments and what it returned or raised ----
    input,            \* the arguments of the call
    output,           \* NoOutput, or the value returned / the exception raised
    \* ---- a thread reading the tracker (progress.py 100-113) ----
    reader,           \* the running read: operation, position, entries seen, result
    \* ---- successive runs of main on one output directory (__main__.py) ----
    run               \* the current run: position, checkpoint as loaded, download list

authVars == <<credentials, client, refresh_count, lock, now, fetches, ncalls,
              pc, op, result, credsAtReturn, entry, path>>

retryVars == <<mode, hasManager, max_retries, base_delay, max_delay, script, rpc,
               attempt, calls, callClient, rclient, credential_refreshed,
               refreshCalls, sleeps, last_exception, outcome>>

trackerVars == <<tfiles, disk, tlock, tpc, targ, tdata, marked, crashed, fresh>>

downloadVars == <<fs, dl>>

orchVars == <<omode, oworkers, behaviour, mpc, mcur, idx, queue, wpc, wobj, futures,
              olocks, downloaded, failed, failedKeys, ofiles, checkpointed, agg,
              interrupted, pendingAtInterrupt, exit_code, prev>>

pureVars == <<input, output>>

readerVars == <<reader>>

runVars == <<run>>

vars == <<authVars, retryVars, trackerVars, downloadVars, orchVars,
          pureVars, readerVars, runVars>>

\* The variables a component's actions leave alone.
nonAuthVars == <<retryVars, trackerVars, downloadVars, orchVars,
                  pureVars, readerVars, runVars>>

nonRetryVars == <<authVars, trackerVars, downloadVars, orchVars,
                   pureVars, readerVars, runVars>>

nonTrackerVars == <<authVars, retryVars, downloadVars, orchVars,
                     pureVars, readerVars, runVars>>

nonDownloadVars == <<authVars, retryVars, trackerVars, orchVars,
                      pureVars, readerVars, runVars>>

nonOrchVars == <<authVars, retryVars, trackerVars, downloadVars,
                  pureVars, readerVars, runVars>>

nonPureVars == <<authVars, retryVars, trackerVars, downloadVars, orchVars,
                 readerVars, runVars>>

----------------------------------------------------------------------------
(* Bounds of the model *)

NumThreads == 2
MaxCalls == 3
MaxTime == 3
RefreshInterval == 2
MaxRetries == 3

Threads == 1..NumThreads

\* Workers calling the tracker, and the number of paths each of them owns.
NumWorkers == 2
KeysPerWorker == 2

TWorkers == 1..NumWorkers

\* No function call is under test, no thread is reading the tracker, and no
\* run of main has started.
NoInput == [fn |-> "none"]
NoOutput == [kind |-> "none"]
NoReader == [pc |-> "idle", op |-> "none", seen |-> {}, size |-> 0, result |-> "none"]
NoRun == [pc |-> "none", n |-> 0, fresh |-> FALSE, loaded |-> {}, before |-> {},
          list |-> {}, issued |-> {}, marked |-> {}]

\* No checkpoint document in the output directory.
NoDocument == [valid |-> TRUE, present |-> FALSE, files |-> {}]

NoArg == [path |-> <<0, 0>>, size |-> 0, checksum |-> "none"]

NotConstructed == [made |-> FALSE]

\* Object keys of the listing, as the dot-separated parts of the file name:
\* "a" and "a.tmp".
Keys == {<<"a">>, <<"a", "tmp">>}

\* download.py 274: temp_path = local_path.with_suffix(local_path.suffix + ".tmp")
temp_path(k) == Append(k, "tmp")

\* safe_join(output_dir, relative_path): the key's own path under the directory.
local_path(k) == k

Paths == {local_path(k) : k \in Keys} \cup {temp_path(local_path(k)) : k \in Keys}

Absent == [obj |-> <<>>, q |-> "absent", v |-> "none"]

NoDownload == [pc |-> "idle", key |-> <<>>, retries |-> 0, attempt |-> 0,
               skip_verify |-> FALSE, etag |-> "none", raised |-> "none",
               result |-> "none"]

NumObjects == 2
PoolWorkers == 2

\* to_download, in list order, and the executor's threads.
Objects == 1..NumObjects

PWorkers == 1..PoolWorkers

\* Lock holders: Free, MainThread, or a pool thread in PWorkers.
Free == -1

MainThread == 0

NoLocks == [cred |-> Free, tracker |-> Free, agg |-> Free]

NotExited == -1

\* The process ends with an uncaught exception (traceback).
Uncaught == -2

NoPrev == [made |-> FALSE]

----------------------------------------------------------------------------
(* CredentialManager *)

NoCreds == [id |-> 0, fetched_at |-> 0]

\* Marker in `result` for a call that ended by raising out of the refresh.
Raised == -1

\* AWSCredentials.is_expiring_soon(buffer) with buffer = lifetime - refresh_interval:
\* age >= lifetime - buffer, that is age >= refresh_interval.
is_expiring_soon(c) == (now - c.fetched_at) >= RefreshInterval

_needs_refresh == IF credentials = NoCreds THEN TRUE ELSE is_expiring_soon(credentials)

\* threading.Lock: acquire blocks until the lock is free.
LockAlwaysAvailable == TRUE

LockAvailable == lock = 0

\* The re-check made after the lock is taken (get_client line 173).
RecheckAlways == TRUE

RecheckGetClient == _needs_refresh \/ client = 0

\* The re-check made after the lock is taken (ensure_fresh line 181).
RecheckEnsureFresh == _needs_refresh

\* No thread is inside a `with self._lock:` block.
NoEntry == [credentials |-> NoCreds, client |-> 0, refresh_count |-> 0]

\* State after CredentialManager.__init__ (auth.py 126-134); no retry sequence runs.
InitAuth ==
    /\ credentials = NoCreds
    /\ client = 0
    /\ refresh_count = 0
    /\ lock = 0
    /\ now = 0
    /\ fetches = 0
    /\ ncalls = 0
    /\ pc = [t \in Threads |-> "idle"]
    /\ op = [t \in Threads |-> "none"]
    /\ result = [t \in Threads |-> 0]
    /\ credsAtReturn = [t \in Threads |-> 0]
    /\ entry = NoEntry
    /\ path = [t \in Threads |-> "none"]
    /\ mode = "plain"
    /\ hasManager = FALSE
    /\ max_retries = 0
    /\ base_delay = 1
    /\ max_delay = 1
    /\ script = <<>>
    /\ rpc = "off"
    /\ attempt = 0
    /\ calls = 0
    /\ callClient = <<>>
    /\ rclient = 0
    /\ credential_refreshed = FALSE
    /\ refreshCalls = 0
    /\ sleeps = <<>>
    /\ last_exception = 0
    /\ outcome = [kind |-> "none", inv |-> 0]
    /\ tfiles = <<>>
    /\ disk = NoDocument
    /\ tlock = [owner |-> 0, count |-> 0]
    /\ tpc = [w \in TWorkers |-> "idle"]
    /\ targ = [w \in TWorkers |-> NoArg]
    /\ tdata = [w \in TWorkers |-> {}]
    /\ marked = [w \in TWorkers |-> {}]
    /\ crashed = FALSE
    /\ fresh = NotConstructed
    /\ fs = [p \in Paths |-> Absent]
    /\ dl = NoDownload
    /\ omode = "sequential"
    /\ oworkers = 1
    /\ behaviour = [o \in Objects |-> "unknown"]
    /\ mpc = "idle"
    /\ mcur = 0
    /\ idx = 0
    /\ queue = <<>>
    /\ wpc = [w \in PWorkers |-> "idle"]
    /\ wobj = [w \in PWorkers |-> 0]
    /\ futures = [o \in Objects |-> "none"]
    /\ olocks = NoLocks
    /\ downloaded = {}
    /\ failed = 0
    /\ failedKeys = {}
    /\ ofiles = {}
    /\ checkpointed = {}
    /\ agg = [completed |-> 0, failed |-> 0]
    /\ interrupted = FALSE
    /\ pendingAtInterrupt = {}
    /\ exit_code = NotExited
    /\ prev = NoPrev
    /\ input = NoInput
    /\ output = NoOutput
    /\ reader = NoReader
    /\ run = NoRun

\* A thread enters get_client(), ensure_fresh() or force_refresh().
Call(t, o) ==
    /\ pc[t] \in {"idle", "done"}
    /\ UNCHANGED entry
    /\ UNCHANGED nonAuthVars
    /\ ncalls < MaxCalls
    /\ ncalls' = ncalls + 1
    /\ op' = [op EXCEPT ![t] = o]
    /\ pc' = [pc EXCEPT ![t] = CASE o = "get_client" -> "gc_check"
                                 [] o = "ensure_fresh" -> "ef_check"
                                 [] OTHER -> "acquire"]
    /\ result' = [result EXCEPT ![t] = 0]
    /\ credsAtReturn' = [credsAtReturn EXCEPT ![t] = 0]
    /\ path' = [path EXCEPT ![t] = "none"]
    /\ UNCHANGED <<credentials, client, refresh_count, lock, now, fetches>>

\* get_client line 167, left operand: `not self._needs_refresh()`.
GetClientCheckFresh(t) ==
    /\ pc[t] = "gc_check"
    /\ UNCHANGED entry
    /\ UNCHANGED nonAuthVars
    /\ pc' = [pc EXCEPT ![t] = IF _needs_refresh THEN "acquire" ELSE "gc_check_client"]
    /\ UNCHANGED <<credentials, client, refresh_count, lock, now, fetches, ncalls,
                   op, result, credsAtReturn, path>>

\* get_client line 167, right operand: `self._client is not None`.
GetClientCheckClient(t) ==
    /\ pc[t] = "gc_check_client"
    /\ UNCHANGED entry
    /\ UNCHANGED nonAuthVars
    /\ pc' = [pc EXCEPT ![t] = IF client # 0 THEN "gc_fast_return" ELSE "acquire"]
    /\ UNCHANGED <<credentials, client, refresh_count, lock, now, fetches, ncalls,
                   op, result, credsAtReturn, path>>

\* get_client line 168: `return self._client` without the lock.
GetClientFastReturn(t) ==
    /\ pc[t] = "gc_fast_return"
    /\ UNCHANGED entry
    /\ UNCHANGED nonAuthVars
    /\ result' = [result EXCEPT ![t] = client]
    /\ credsAtReturn' = [credsAtReturn EXCEPT ![t] = credentials.id]
    /\ path' = [path EXCEPT ![t] = "fast"]
    /\ pc' = [pc EXCEPT ![t] = "done"]
    /\ UNCHANGED <<credentials, client, refresh_count, lock, now, fetches, ncalls, op>>

\* ensure_fresh line 179: the check made without the lock.
EnsureFreshCheck(t) ==
    /\ pc[t] = "ef_check"
    /\ UNCHANGED entry
    /\ UNCHANGED nonAuthVars
    /\ pc' = [pc EXCEPT ![t] = IF _needs_refresh THEN "acquire" ELSE "done"]
    /\ UNCHANGED <<credentials, client, refresh_count, lock, now, fetches, ncalls,
                   op, result, credsAtReturn, path>>

\* `with self._lock:` of get_client (171), ensure_fresh (180) and force_refresh (191).
Acquire(t) ==
    /\ pc[t] = "acquire"
    /\ entry' = [credentials |-> credentials, client |-> client,
                 refresh_count |-> refresh_count]
    /\ UNCHANGED nonAuthVars
    /\ LockAvailable
    /\ lock' = t
    /\ pc' = [pc EXCEPT ![t] = IF op[t] = "force_refresh" THEN "rf_fetch" ELSE "locked"]
    /\ path' = [path EXCEPT ![t] = "slow"]
    /\ UNCHANGED <<credentials, client, refresh_count, now, fetches, ncalls,
                   op, result, credsAtReturn>>

\* The double check under the lock (get_client 173, ensure_fresh 181).
LockedCheck(t) ==
    /\ pc[t] = "locked"
    /\ UNCHANGED entry
    /\ UNCHANGED nonAuthVars
    /\ LET again == IF op[t] = "get_client" THEN RecheckGetClient ELSE RecheckEnsureFresh
       IN  pc' = [pc EXCEPT ![t] = IF again THEN "rf_fetch" ELSE "release"]
    /\ UNCHANGED <<credentials, client, refresh_count, lock, now, fetches, ncalls,
                   op, result, credsAtReturn, path>>

\* _refresh_credentials line 154: fetch_credentials() returns new credentials.
RefreshFetch(t) ==
    /\ pc[t] = "rf_fetch"
    /\ UNCHANGED entry
    /\ UNCHANGED nonAuthVars
    /\ fetches' = fetches + 1
    /\ credentials' = [id |-> fetches + 1, fetched_at |-> now]
    /\ pc' = [pc EXCEPT ![t] = "rf_client"]
    /\ UNCHANGED <<client, refresh_count, lock, now, ncalls, op, result,
                   credsAtReturn, path>>

\* _refresh_credentials line 154: fetch_credentials() raises AuthenticationError;
\* the exception leaves the with block, which releases the lock.
RefreshFetchFails(t) ==
    /\ pc[t] = "rf_fetch"
    /\ entry' = NoEntry
    /\ UNCHANGED nonAuthVars
    /\ fetches' = fetches + 1
    /\ lock' = 0
    /\ result' = [result EXCEPT ![t] = Raised]
    /\ pc' = [pc EXCEPT ![t] = "done"]
    /\ UNCHANGED <<credentials, client, refresh_count, now, ncalls, op,
                   credsAtReturn, path>>

\* _refresh_credentials line 155: self._client = self._create_client(self._credentials).
RefreshCreateClient(t) ==
    /\ pc[t] = "rf_client"
    /\ UNCHANGED entry
    /\ UNCHANGED nonAuthVars
    /\ client' = credentials.id
    /\ pc' = [pc EXCEPT ![t] = "rf_count"]
    /\ UNCHANGED <<credentials, refresh_count, lock, now, fetches, ncalls, op,
                   result, credsAtReturn, path>>

\* _refresh_credentials line 155: _create_client raises; self._credentials was
\* already assigned on line 154, and the exception leaves the with block.
RefreshCreateClientFails(t) ==
    /\ pc[t] = "rf_client"
    /\ entry' = NoEntry
    /\ UNCHANGED nonAuthVars
    /\ lock' = 0
    /\ result' = [result EXCEPT ![t] = Raised]
    /\ pc' = [pc EXCEPT ![t] = "done"]
    /\ UNCHANGED <<credentials, client, refresh_count, now, fetches, ncalls, op,
                   credsAtReturn, path>>

\* _refresh_credentials line 156: self._refresh_count += 1.
RefreshCount(t) ==
    /\ pc[t] = "rf_count"
    /\ UNCHANGED entry
    /\ UNCHANGED nonAuthVars
    /\ refresh_count' = refresh_count + 1
    /\ pc' = [pc EXCEPT ![t] = "release"]
    /\ UNCHANGED <<credentials, client, lock, now, fetches, ncalls, op,
                   result, credsAtReturn, path>>

\* End of the with block: get_client (175) and force_refresh (193) return
\* self._client, ensure_fresh returns nothing; the lock is released.
Release(t) ==
    /\ pc[t] = "release"
    /\ entry' = NoEntry
    /\ UNCHANGED nonAuthVars
    /\ lock' = 0
    /\ result' = [result EXCEPT ![t] = IF op[t] = "ensure_fresh" THEN 0 ELSE client]
    /\ credsAtReturn' = [credsAtReturn EXCEPT ![t] =
                            IF op[t] = "ensure_fresh" THEN 0 ELSE credentials.id]
    /\ pc' = [pc EXCEPT ![t] = "done"]
    /\ UNCHANGED <<credentials, client, refresh_count, now, fetches, ncalls, op, path>>

\* Time passes.
Tick ==
    /\ now < MaxTime
    /\ UNCHANGED entry
    /\ UNCHANGED nonAuthVars
    /\ now' = now + 1
    /\ UNCHANGED <<credentials, client, refresh_count, lock, fetches, ncalls,
                   pc, op, result, credsAtReturn, path>>

----------------------------------------------------------------------------
(* Retry engine (retry.py) *)

\* Outcomes of one invocation of the wrapped operation: it returns, raises a
\* credential error (a retryable error for which is_credential_error holds),
\* raises another retryable error, or raises an error outside the retryable set.
Outcomes == {"ok", "cred", "net", "fatal"}

\* One more scripted outcome than the largest attempt budget.
ScriptLen == MaxRetries + 1

\* (base_delay, max_delay) pairs tried; <<1, 60>> are the defaults.
DelayPairs == {<<1, 60>>, <<2, 3>>}

Min(a, b) == IF a <= b THEN a ELSE b

\* One attempt more than max(max_retries, 1).
attemptsOneMore == IF max_retries >= 1 THEN max_retries + 1 ELSE 2

\* attempts = max(max_retries, 1)  (retry.py 59 and 111)
attemptsNoFloor == max_retries

attempts == IF max_retries >= 1 THEN max_retries ELSE 1

\* `except retryable_exceptions` (retry.py 64 and 126)
IsRetryableAll(r) == r # "ok"

IsRetryable(r) == r \in {"cred", "net"}

\* delay = min(base_delay * (2 ** (attempt - 1)), max_delay)  (retry.py 70 and 146)
delayOffByOne(k) == Min(base_delay * (2 ^ k), max_delay)

delay(k) == Min(base_delay * (2 ^ (k - 1)), max_delay)

\* retry.py 129-130: the caught error is a credential error, a manager was
\* given, and no refresh was made yet in this sequence.
ShouldRefreshEveryTime ==
    mode = "cred" /\ script[calls] = "cred" /\ hasManager

ShouldRefresh ==
    mode = "cred" /\ script[calls] = "cred" /\ hasManager /\ ~credential_refreshed

\* The error kept in last_exception when invocation n raised (retry.py 65, 127).
CaughtFirst(n) == IF last_exception = 0 THEN n ELSE last_exception

Caught(n) == n

NoOutcome == [kind |-> "none", inv |-> 0]

\* State at the call of the decorated function / of retry_with_credential_refresh;
\* the CredentialManager variables stay at their initial values.
InitRetry ==
    /\ credentials = NoCreds
    /\ client = 0
    /\ refresh_count = 0
    /\ lock = 0
    /\ now = 0
    /\ fetches = 0
    /\ ncalls = 0
    /\ pc = [t \in Threads |-> "idle"]
    /\ op = [t \in Threads |-> "none"]
    /\ result = [t \in Threads |-> 0]
    /\ credsAtReturn = [t \in Threads |-> 0]
    /\ entry = NoEntry
    /\ path = [t \in Threads |-> "none"]
    /\ mode \in {"plain", "cred"}
    /\ hasManager \in IF mode = "cred" THEN BOOLEAN ELSE {FALSE}
    /\ max_retries \in 0..MaxRetries
    /\ \E d \in DelayPairs : base_delay = d[1] /\ max_delay = d[2]
    /\ script \in [1..ScriptLen -> Outcomes]
    /\ rpc = "start"
    /\ attempt = 0
    /\ calls = 0
    /\ callClient = <<>>
    /\ rclient = 0
    /\ credential_refreshed = FALSE
    /\ refreshCalls = 0
    /\ sleeps = <<>>
    /\ last_exception = 0
    /\ outcome = NoOutcome
    /\ tfiles = <<>>
    /\ disk = NoDocument
    /\ tlock = [owner |-> 0, count |-> 0]
    /\ tpc = [w \in TWorkers |-> "idle"]
    /\ targ = [w \in TWorkers |-> NoArg]
    /\ tdata = [w \in TWorkers |-> {}]
    /\ marked = [w \in TWorkers |-> {}]
    /\ crashed = FALSE
    /\ fresh = NotConstructed
    /\ fs = [p \in Paths |-> Absent]
    /\ dl = NoDownload
    /\ omode = "sequential"
    /\ oworkers = 1
    /\ behaviour = [o \in Objects |-> "unknown"]
    /\ mpc = "idle"
    /\ mcur = 0
    /\ idx = 0
    /\ queue = <<>>
    /\ wpc = [w \in PWorkers |-> "idle"]
    /\ wobj = [w \in PWorkers |-> 0]
    /\ futures = [o \in Objects |-> "none"]
    /\ olocks = NoLocks
    /\ downloaded = {}
    /\ failed = 0
    /\ failedKeys = {}
    /\ ofiles = {}
    /\ checkpointed = {}
    /\ agg = [completed |-> 0, failed |-> 0]
    /\ interrupted = FALSE
    /\ pendingAtInterrupt = {}
    /\ exit_code = NotExited
    /\ prev = NoPrev
    /\ input = NoInput
    /\ output = NoOutput
    /\ reader = NoReader
    /\ run = NoRun

\* retry.py 157-161 (80-84): after the loop, raise RetryExhausted(last_exception);
\* the assert fails when no exception was ever caught.
AfterLoop ==
    IF last_exception # 0
    THEN [kind |-> "exhausted", inv |-> last_exception]
    ELSE [kind |-> "assert", inv |-> 0]

\* retry.py 58-61: plain mode enters the loop directly.
\* retry.py 110-119: credential mode takes the client from the manager first
\* (client = None without a manager).
RetryStart ==
    /\ rpc = "start"
    /\ rclient' = IF mode = "cred" /\ hasManager THEN 1 ELSE 0
    /\ IF attempts >= 1
       THEN attempt' = 1 /\ rpc' = "call" /\ outcome' = outcome
       ELSE attempt' = attempt /\ rpc' = "done" /\ outcome' = AfterLoop
    /\ UNCHANGED nonRetryVars
    /\ UNCHANGED <<mode, hasManager, max_retries, base_delay, max_delay, script,
                   calls, callClient, credential_refreshed, refreshCalls,
                   sleeps, last_exception>>

\* retry.py 115: credential_manager.get_client() raises AuthenticationError.
RetryStartGetClientFails ==
    /\ rpc = "start"
    /\ mode = "cred" /\ hasManager
    /\ rpc' = "done"
    /\ outcome' = [kind |-> "auth_error", inv |-> 0]
    /\ UNCHANGED nonRetryVars
    /\ UNCHANGED <<mode, hasManager, max_retries, base_delay, max_delay, script,
                   attempt, calls, callClient, rclient, credential_refreshed,
                   refreshCalls, sleeps, last_exception>>

\* retry.py 63 / 121-124: the operation is invoked and returns.
InvokeReturns ==
    /\ rpc = "call"
    /\ script[calls + 1] = "ok"
    /\ calls' = calls + 1
    /\ callClient' = Append(callClient, rclient)
    /\ rpc' = "done"
    /\ outcome' = [kind |-> "returned", inv |-> calls + 1]
    /\ UNCHANGED nonRetryVars
    /\ UNCHANGED <<mode, hasManager, max_retries, base_delay, max_delay, script,
                   attempt, rclient, credential_refreshed, refreshCalls, sleeps,
                   last_exception>>

\* retry.py 64-65 / 126-127: the operation raises a retryable error, which is
\* caught and stored in last_exception.
InvokeRaisesRetryable ==
    /\ rpc = "call"
    /\ script[calls + 1] # "ok"
    /\ IsRetryable(script[calls + 1])
    /\ calls' = calls + 1
    /\ callClient' = Append(callClient, rclient)
    /\ last_exception' = Caught(calls + 1)
    /\ rpc' = "except"
    /\ UNCHANGED nonRetryVars
    /\ UNCHANGED <<mode, hasManager, max_retries, base_delay, max_delay, script,
                   attempt, rclient, credential_refreshed, refreshCalls, sleeps,
                   outcome>>

\* retry.py 77-78 / 154-155: the operation raises an error outside the
\* retryable set, which is re-raised as it is.
InvokeRaisesOther ==
    /\ rpc = "call"
    /\ script[calls + 1] # "ok"
    /\ ~IsRetryable(script[calls + 1])
    /\ calls' = calls + 1
    /\ callClient' = Append(callClient, rclient)
    /\ rpc' = "done"
    /\ outcome' = [kind |-> "error", inv |-> calls + 1]
    /\ UNCHANGED nonRetryVars
    /\ UNCHANGED <<mode, hasManager, max_retries, base_delay, max_delay, script,
                   attempt, rclient, credential_refreshed, refreshCalls, sleeps,
                   last_exception>>

\* retry.py 131-137: force_refresh() returns a new client; `continue` takes the
\* for loop to its next value of attempt, or out of the loop when there is none.
ForceRefresh ==
    /\ rpc = "except"
    /\ ShouldRefresh
    /\ refreshCalls' = refreshCalls + 1
    /\ rclient' = 2
    /\ credential_refreshed' = TRUE
    /\ IF attempt < attempts
       THEN attempt' = attempt + 1 /\ rpc' = "call" /\ outcome' = outcome
       ELSE attempt' = attempt /\ rpc' = "done" /\ outcome' = AfterLoop
    /\ UNCHANGED nonRetryVars
    /\ UNCHANGED <<mode, hasManager, max_retries, base_delay, max_delay, script,
                   calls, callClient, sleeps, last_exception>>

\* force_refresh() raises, and the failure is treated as one more failed attempt.
ForceRefreshFailsCounted ==
    /\ rpc = "except"
    /\ ShouldRefresh
    /\ refreshCalls' = refreshCalls + 1
    /\ rpc' = "done"
    /\ outcome' = AfterLoop
    /\ UNCHANGED nonRetryVars
    /\ UNCHANGED <<mode, hasManager, max_retries, base_delay, max_delay, script,
                   attempt, calls, callClient, rclient, credential_refreshed,
                   sleeps, last_exception>>

\* retry.py 135: force_refresh() raises AuthenticationError inside the handler.
ForceRefreshFails ==
    /\ rpc = "except"
    /\ ShouldRefresh
    /\ refreshCalls' = refreshCalls + 1
    /\ rpc' = "done"
    /\ outcome' = [kind |-> "auth_error", inv |-> 0]
    /\ UNCHANGED nonRetryVars
    /\ UNCHANGED <<mode, hasManager, max_retries, base_delay, max_delay, script,
                   attempt, calls, callClient, rclient, credential_refreshed,
                   sleeps, last_exception>>

\* retry.py 67-68 / 143-144 and 80-84 / 157-161: the last attempt failed.
Exhausted ==
    /\ rpc = "except"
    /\ ~ShouldRefresh
    /\ attempt >= attempts
    /\ rpc' = "done"
    /\ outcome' = AfterLoop
    /\ UNCHANGED nonRetryVars
    /\ UNCHANGED <<mode, hasManager, max_retries, base_delay, max_delay, script,
                   attempt, calls, callClient, rclient, credential_refreshed,
                   refreshCalls, sleeps, last_exception>>

\* retry.py 70-76 / 146-152: sleep for the backoff delay, then the next attempt.
Sleep ==
    /\ rpc = "except"
    /\ ~ShouldRefresh
    /\ attempt < attempts
    /\ sleeps' = Append(sleeps, [after |-> attempt, delay |-> delay(attempt)])
    /\ attempt' = attempt + 1
    /\ rpc' = "call"
    /\ UNCHANGED nonRetryVars
    /\ UNCHANGED <<mode, hasManager, max_retries, base_delay, max_delay, script,
                   calls, callClient, rclient, credential_refreshed,
                   refreshCalls, last_exception, outcome>>

NextRetry ==
    \/ RetryStart
    \/ RetryStartGetClientFails
    \/ InvokeReturns
    \/ InvokeRaisesRetryable
    \/ InvokeRaisesOther
    \/ ForceRefresh
    \/ ForceRefreshFails
    \/ Exhausted
    \/ Sleep

SpecRetry == InitRetry /\ [][NextRetry]_vars

\* The retry loop is sequential code that keeps running: a step that can be
\* taken is taken.
FairSpecRetry == SpecRetry /\ WF_vars(NextRetry)

----------------------------------------------------------------------------
(* Specifications of the CredentialManager *)

NextAuth ==
       \/ \E t \in Threads : Call(t, "get_client")
       \/ \E t \in Threads : Call(t, "ensure_fresh")
       \/ \E t \in Threads : Call(t, "force_refresh")
       \/ \E t \in Threads : GetClientCheckFresh(t)
       \/ \E t \in Threads : GetClientCheckClient(t)
       \/ \E t \in Threads : GetClientFastReturn(t)
       \/ \E t \in Threads : EnsureFreshCheck(t)
       \/ \E t \in Threads : Acquire(t)
       \/ \E t \in Threads : LockedCheck(t)
       \/ \E t \in Threads : RefreshFetch(t)
       \/ \E t \in Threads : RefreshFetchFails(t)
       \/ \E t \in Threads : RefreshCreateClient(t)
       \/ \E t \in Threads : RefreshCreateClientFails(t)
       \/ \E t \in Threads : RefreshCount(t)
       \/ \E t \in Threads : Release(t)
       \/ Tick

SpecAuth == InitAuth /\ [][NextAuth]_vars

\* N concurrent get_client() calls on a new manager whose fetch succeeds and
\* whose credentials stay fresh (no time passes, no other operation).
NextGet ==
       \/ \E t \in Threads : Call(t, "get_client")
       \/ \E t \in Threads : GetClientCheckFresh(t)
       \/ \E t \in Threads : GetClientCheckClient(t)
       \/ \E t \in Threads : GetClientFastReturn(t)
       \/ \E t \in Threads : Acquire(t)
       \/ \E t \in Threads : LockedCheck(t)
       \/ \E t \in Threads : RefreshFetch(t)
       \/ \E t \in Threads : RefreshCreateClient(t)
       \/ \E t \in Threads : RefreshCount(t)
       \/ \E t \in Threads : Release(t)

SpecGet == InitAuth /\ [][NextGet]_vars

----------------------------------------------------------------------------
(* Claims about the CredentialManager *)

Refreshing == {t \in Threads : pc[t] \in {"rf_fetch", "rf_client", "rf_count"}}

Quiescent == \A t \in Threads : pc[t] \in {"idle", "done"}

\* C1: concurrent get_client() calls on a manager that starts without
\* credentials, whose credentials stay fresh, perform exactly one fetch; every
\* caller that has returned holds the same, non-null handle; and once all calls
\* have returned refresh_count is exactly 1.
C1_SingleFetch ==
    /\ fetches <= 1
    /\ \A t \in Threads : pc[t] = "done" =>
          /\ fetches = 1
          /\ result[t] > 0
          /\ \A u \in Threads : pc[u] = "done" => result[u] = result[t]
    /\ (Quiescent /\ ncalls > 0) => refresh_count = 1

\* C1 witness: every thread has called and returned, at least two callers went
\* through the lock (both saw "needs refresh"), and one refresh was counted.
C1_Witness ==
    /\ \A t \in Threads : pc[t] = "done"
    /\ \E t, u \in Threads : t # u /\ path[t] = "slow" /\ path[u] = "slow"
    /\ refresh_count = 1

\* C2: every handle returned by get_client() is the handle built from the
\* credentials the manager holds at the moment of the return.
C2_HandleMatchesCredentials ==
    \A t \in Threads :
        (pc[t] = "done" /\ op[t] = "get_client" /\ result[t] > 0)
            => result[t] = credsAtReturn[t]

\* C3: at most one thread is inside _refresh_credentials at any time.
C3_OneRefreshAtATime == Cardinality(Refreshing) <= 1

\* C3 witness: one thread is between the fetch and the client construction
\* while another caller of force_refresh() waits for the lock.
C3_Witness ==
    \E t, u \in Threads :
        /\ t # u
        /\ pc[t] = "rf_client"
        /\ pc[u] = "acquire"
        /\ op[u] = "force_refresh"

\* C27: force_refresh refreshes whatever the age of the credentials: its
\* fetch is made under the lock and a call that returns hands back the handle
\* built from the credentials it fetched; get_client and ensure_fresh fetch
\* nothing while the credentials are fresh: such a call is about to fetch only
\* when the credentials are missing or expiring.
C27_RefreshOnlyWhenNeeded ==
    \A t \in Threads :
        /\ pc[t] \in {"rf_fetch", "rf_client", "rf_count"} => lock = t
        /\ (op[t] = "force_refresh" /\ pc[t] = "done" /\ result[t] # Raised) =>
               /\ result[t] # 0
               /\ result[t] = credsAtReturn[t]
        /\ (op[t] \in {"get_client", "ensure_fresh"} /\ pc[t] = "rf_fetch") =>
               _needs_refresh

\* C33: a refresh that fails inside get_client(), ensure_fresh() or
\* force_refresh() leaves the manager as it was when the call took the lock:
\* in the step in which the call raises, credentials, cached handle and
\* refresh_count have the values they had on entry and the lock is free.
C33_FailedRefreshKeepsState ==
    [][\A t \in Threads :
          (pc[t] \in {"rf_fetch", "rf_client"} /\ result'[t] = Raised) =>
              /\ credentials' = entry.credentials
              /\ client' = entry.client
              /\ refresh_count' = entry.refresh_count
              /\ lock' = 0]_vars

----------------------------------------------------------------------------
(* Claims about the retry engine *)

\* The attempt budget max(max_retries, 1), written out for the claims.
Budget == IF max_retries > 1 THEN max_retries ELSE 1

RetryableFailure(i) == script[i] \in {"cred", "net"}

CredMode == mode = "cred" /\ hasManager

\* C4: within one retry sequence force_refresh() is called at most once.
C4_AtMostOneRefresh == refreshCalls <= 1

\* C4 witness: a sequence that saw two credential errors, refreshed after the
\* first one only, and ran out of attempts.
C4_Witness ==
    /\ rpc = "done"
    /\ outcome.kind = "exhausted"
    /\ refreshCalls = 1
    /\ \E i, j \in 1..calls : i < j /\ script[i] = "cred" /\ script[j] = "cred"

\* C5: the step "first credential error -> force_refresh -> retry" consumes no
\* attempt: whenever the operation is about to be invoked, the attempts used up
\* are the invocations made, less the one corrected by the refresh.
C5_RefreshConsumesNoAttempt ==
    rpc = "call" =>
        attempt - 1 = calls - (IF credential_refreshed THEN 1 ELSE 0)

\* C6: for every max_retries, a credential-aware sequence whose first
\* invocation raises a credential error and whose second would succeed makes
\* one force_refresh, invokes the operation twice (the second time with the
\* refreshed client), never sleeps, and returns the second invocation's result.
C6_RefreshThenSuccess ==
    (/\ rpc = "done"
     /\ CredMode
     /\ outcome.kind # "auth_error"
     /\ script[1] = "cred"
     /\ script[2] = "ok")
        => /\ refreshCalls = 1
           /\ calls = 2
           /\ callClient = <<1, 2>>
           /\ sleeps = <<>>
           /\ outcome = [kind |-> "returned", inv |-> 2]

\* C7: a credential-aware sequence (get_client and force_refresh returning) in
\* which every invocation raises a credential error calls force_refresh exactly
\* once, uses its whole budget, and raises RetryExhausted carrying the
\* credential error of the final invocation.
C7_AllCredentialErrors ==
    (/\ rpc = "done"
     /\ CredMode
     /\ outcome.kind # "auth_error"
     /\ calls >= 1
     /\ \A i \in 1..calls : script[i] = "cred")
        => /\ refreshCalls = 1
           /\ calls = Budget
           /\ outcome = [kind |-> "exhausted", inv |-> calls]

\* C7 witness: three invocations, all credential errors, ended by RetryExhausted.
C7_Witness ==
    /\ rpc = "done"
    /\ CredMode
    /\ calls = 3
    /\ \A i \in 1..calls : script[i] = "cred"
    /\ outcome.kind = "exhausted"

\* C8: retry_with_backoff invokes the operation at least once (also with
\* max_retries = 0); when every invocation raises a retryable error it is
\* invoked max(max_retries, 1) times and RetryExhausted carries the last error;
\* when invocation k is the first to succeed the result comes after k invocations.
C8_PlainRetry ==
    (mode = "plain" /\ rpc = "done") =>
        /\ calls >= 1
        /\ (\A i \in 1..Budget : RetryableFailure(i)) =>
               /\ calls = Budget
               /\ outcome = [kind |-> "exhausted", inv |-> Budget]
        /\ \A k \in 1..Budget :
               (script[k] = "ok" /\ \A i \in 1..(k - 1) : RetryableFailure(i)) =>
                   /\ calls = k
                   /\ outcome = [kind |-> "returned", inv |-> k]

\* C8 witness: max_retries = 0, the single invocation fails, RetryExhausted.
C8_Witness ==
    /\ mode = "plain"
    /\ rpc = "done"
    /\ max_retries = 0
    /\ calls = 1
    /\ outcome = [kind |-> "exhausted", inv |-> 1]

\* C9: in both modes every sleep follows a failed attempt k below the budget
\* and lasts min(base_delay * 2^(k-1), max_delay); a fully failing sequence
\* without a credential refresh sleeps after each attempt but the last,
\* budget - 1 times in all.
C9_BackoffDelays ==
    /\ \A n \in 1..Len(sleeps) :
          /\ sleeps[n].after >= 1
          /\ sleeps[n].after < Budget
          /\ sleeps[n].delay =
                 Min(base_delay * (2 ^ (sleeps[n].after - 1)), max_delay)
          /\ n > 1 => sleeps[n - 1].after < sleeps[n].after
    /\ (rpc = "done" /\ outcome.kind = "exhausted" /\ refreshCalls = 0) =>
          /\ Len(sleeps) = Budget - 1
          /\ \A k \in 1..(Budget - 1) : sleeps[k].after = k

\* C9 witness: a fully failing sequence of three attempts whose second sleep
\* is cut down to max_delay.
C9_Witness ==
    /\ rpc = "done"
    /\ outcome.kind = "exhausted"
    /\ refreshCalls = 0
    /\ Len(sleeps) = 2
    /\ base_delay * 2 > max_delay
    /\ sleeps[2].delay = max_delay

\* C10: in both modes an error outside the retryable set ends the sequence at
\* the invocation that raised it: it reaches the caller as it is (not as
\* RetryExhausted), with no sleep, refresh or invocation after it; raised by
\* the first invocation, that is one invocation, no sleep and no refresh.
C10_NonRetryablePropagates ==
    \A k \in 1..calls :
        script[k] = "fatal" =>
            /\ k = calls
            /\ rpc = "done"
            /\ outcome = [kind |-> "error", inv |-> k]
            /\ Len(sleeps) + refreshCalls = k - 1

\* C10 witness: credential-aware mode, the first invocation raises a
\* non-retryable error.
C10_Witness ==
    /\ rpc = "done"
    /\ CredMode
    /\ script[1] = "fatal"
    /\ calls = 1
    /\ outcome = [kind |-> "error", inv |-> 1]

\* C34: when force_refresh() or the initial get_client() raises an
\* authentication failure inside a credential-aware sequence, the sequence
\* ends in that step with the authentication failure: the operation is not
\* invoked again, nothing is slept, the outcome is not RetryExhausted, and
\* nothing happens afterwards.
C34_AuthFailureEndsSequence ==
    [][/\ (rpc = "except" /\ refreshCalls' = refreshCalls + 1 /\ ~credential_refreshed') =>
              /\ outcome'.kind = "auth_error"
              /\ rpc' = "done"
              /\ calls' = calls
              /\ sleeps' = sleeps
       /\ (rpc = "start" /\ rpc' = "done") =>
              /\ outcome'.kind = "auth_error"
              /\ calls' = 0
              /\ sleeps' = <<>>
       /\ outcome.kind = "auth_error" =>
              /\ outcome' = outcome
              /\ calls' = calls
              /\ sleeps' = sleeps
              /\ refreshCalls' = refreshCalls]_vars

\* C34 witness: force_refresh() raised after the operation had failed with a
\* credential error, and the sequence ended with the authentication failure.
C34_Witness ==
    /\ outcome.kind = "auth_error"
    /\ refreshCalls = 1
    /\ calls >= 1
    /\ rpc = "done"

\* C35: a force_refresh() that succeeded is followed, before the sequence
\* ends, by at least one invocation of the operation with the refreshed
\* client: no sequence ends having refreshed without using the result.
C35_RefreshedClientIsUsed ==
    (rpc = "done" /\ credential_refreshed) =>
        \E i \in 1..Len(callClient) : callClient[i] = 2

\* C36: every retry sequence terminates: in both modes and for every
\* sequence of operation outcomes the operation is invoked at most
\* max(max_retries, 1) times, at most max(max_retries, 1) - 1 sleeps are made,
\* and the sequence ends by returning a result, by propagating an error it
\* does not retry (the operation's, or the manager's authentication failure)
\* or by raising RetryExhausted.
C36_Terminates ==
    /\ [](calls <= Budget /\ Len(sleeps) <= Budget - 1)
    /\ <>[](/\ rpc = "done"
            /\ outcome.kind \in {"returned", "error", "auth_error", "exhausted"})

\* C36 witness: a sequence that used its whole budget of MaxRetries
\* invocations, slept between them, and raised RetryExhausted.
C36_Witness ==
    /\ rpc = "done"
    /\ Budget = MaxRetries
    /\ calls = Budget
    /\ Len(sleeps) = Budget - 1
    /\ outcome.kind = "exhausted"

----------------------------------------------------------------------------
(* ProgressTracker (progress.py) *)

\* The (size, checksum) values an object may be marked complete with.
ObjectAttrs == {[size |-> 10, checksum |-> "a"], [size |-> 20, checksum |-> "b"]}

\* Worker w marks the objects <<w, 1>>, <<w, 2>>, ...: distinct keys per worker.
WorkerPaths(w) == {<<w, i>> : i \in 1..KeysPerWorker}

AllPaths == UNION {WorkerPaths(w) : w \in TWorkers}

\* FileStatus(path, size, checksum, completed=True, completed_at=now)  (progress.py 91-97)
FileStatus(p, sz, ck) ==
    [path |-> p, size |-> sz, checksum |-> ck,
     completed |-> TRUE, completed_at |-> "now"]

\* FileStatus.to_dict  (progress.py 23-30)
to_dict(st) ==
    [path |-> st.path, size |-> st.size, checksum |-> st.checksum,
     completed |-> st.completed, completed_at |-> st.completed_at]

\* FileStatus.from_dict  (progress.py 33-40)
from_dictNotCompleted(d) ==
    [path |-> d.path, size |-> d.size, checksum |-> d.checksum,
     completed |-> FALSE, completed_at |-> d.completed_at]

from_dict(d) ==
    [path |-> d.path, size |-> d.size, checksum |-> d.checksum,
     completed |-> d.completed, completed_at |-> d.completed_at]

\* ProgressTracker._load on a new tracker  (progress.py 62-73): no document
\* gives an empty map; json.load of a truncated document raises.
_load(doc) ==
    IF ~doc.present THEN [ok |-> TRUE, files |-> <<>>]
    ELSE IF ~doc.valid THEN [ok |-> FALSE, files |-> <<>>]
    ELSE [ok |-> TRUE,
          files |-> [p \in {d.path : d \in doc.files} |->
                        from_dict(CHOOSE d \in doc.files : d.path = p)]]

\* ProgressTracker.is_complete  (progress.py 100-103)
is_completeNever(files, p) == FALSE

is_complete(files, p) == p \in DOMAIN files /\ files[p].completed

\* ProgressTracker.get_completed_files  (progress.py 105-106)
get_completed_files(files) == {p \in DOMAIN files : files[p].completed}

RECURSIVE SumSizes(_, _)
SumSizes(files, S) ==
    IF S = {} THEN 0
    ELSE LET p == CHOOSE q \in S : TRUE
         IN  files[p].size + SumSizes(files, S \ {p})

\* ProgressTracker.get_stats  (progress.py 108-113)
get_stats(files) ==
    [files_completed |-> Cardinality(get_completed_files(files)),
     bytes_completed |-> SumSizes(files, get_completed_files(files))]

\* RLock.acquire: free, or already held by the same thread.
TLockAlwaysAvailable(w) == TRUE

TLockAvailable(w) == tlock.owner \in {0, w}

TRelease == IF tlock.count <= 1
            THEN [owner |-> 0, count |-> 0]
            ELSE [tlock EXCEPT !.count = tlock.count - 1]

\* A new tracker on an output directory without a checkpoint document
\* (progress.py 52-55); the other components are idle.
InitTracker ==
    /\ credentials = NoCreds
    /\ client = 0
    /\ refresh_count = 0
    /\ lock = 0
    /\ now = 0
    /\ fetches = 0
    /\ ncalls = 0
    /\ pc = [t \in Threads |-> "idle"]
    /\ op = [t \in Threads |-> "none"]
    /\ result = [t \in Threads |-> 0]
    /\ credsAtReturn = [t \in Threads |-> 0]
    /\ entry = NoEntry
    /\ path = [t \in Threads |-> "none"]
    /\ mode = "plain"
    /\ hasManager = FALSE
    /\ max_retries = 0
    /\ base_delay = 1
    /\ max_delay = 1
    /\ script = <<>>
    /\ rpc = "off"
    /\ attempt = 0
    /\ calls = 0
    /\ callClient = <<>>
    /\ rclient = 0
    /\ credential_refreshed = FALSE
    /\ refreshCalls = 0
    /\ sleeps = <<>>
    /\ last_exception = 0
    /\ outcome = [kind |-> "none", inv |-> 0]
    /\ tfiles = <<>>
    /\ disk = NoDocument
    /\ tlock = [owner |-> 0, count |-> 0]
    /\ tpc = [w \in TWorkers |-> "idle"]
    /\ targ = [w \in TWorkers |-> NoArg]
    /\ tdata = [w \in TWorkers |-> {}]
    /\ marked = [w \in TWorkers |-> {}]
    /\ crashed = FALSE
    /\ fresh = NotConstructed
    /\ fs = [p \in Paths |-> Absent]
    /\ dl = NoDownload
    /\ omode = "sequential"
    /\ oworkers = 1
    /\ behaviour = [o \in Objects |-> "unknown"]
    /\ mpc = "idle"
    /\ mcur = 0
    /\ idx = 0
    /\ queue = <<>>
    /\ wpc = [w \in PWorkers |-> "idle"]
    /\ wobj = [w \in PWorkers |-> 0]
    /\ futures = [o \in Objects |-> "none"]
    /\ olocks = NoLocks
    /\ downloaded = {}
    /\ failed = 0
    /\ failedKeys = {}
    /\ ofiles = {}
    /\ checkpointed = {}
    /\ agg = [completed |-> 0, failed |-> 0]
    /\ interrupted = FALSE
    /\ pendingAtInterrupt = {}
    /\ exit_code = NotExited
    /\ prev = NoPrev
    /\ input = NoInput
    /\ output = NoOutput
    /\ reader = NoReader
    /\ run = NoRun

\* A worker calls mark_complete(path, size, checksum) for the next of its
\* objects, as long as the directory has not been handed to a new tracker.
MarkCall(w) ==
    /\ tpc[w] = "idle"
    /\ ~crashed
    /\ ~fresh.made
    /\ \E p \in WorkerPaths(w), a \in ObjectAttrs :
          /\ p[2] = Cardinality(marked[w]) + 1
          /\ targ' = [targ EXCEPT ![w] =
                         [path |-> p, size |-> a.size, checksum |-> a.checksum]]
          /\ marked' = [marked EXCEPT ![w] = marked[w] \cup {p}]
    /\ tpc' = [tpc EXCEPT ![w] = "mc_acquire"]
    /\ UNCHANGED nonTrackerVars
    /\ UNCHANGED <<tfiles, disk, tlock, tdata, crashed, fresh>>

\* mark_complete line 90: `with self._lock:`.
MarkAcquire(w) ==
    /\ tpc[w] = "mc_acquire"
    /\ ~crashed
    /\ TLockAvailable(w)
    /\ tlock' = [owner |-> w, count |-> tlock.count + 1]
    /\ tpc' = [tpc EXCEPT ![w] = "mc_put"]
    /\ UNCHANGED nonTrackerVars
    /\ UNCHANGED <<tfiles, disk, targ, tdata, marked, crashed, fresh>>

\* mark_complete lines 91-97: self.files[path] = FileStatus(...).
MarkPut(w) ==
    /\ tpc[w] = "mc_put"
    /\ ~crashed
    /\ tfiles' = [p \in DOMAIN tfiles \cup {targ[w].path} |->
                     IF p = targ[w].path
                     THEN FileStatus(targ[w].path, targ[w].size, targ[w].checksum)
                     ELSE tfiles[p]]
    /\ tpc' = [tpc EXCEPT ![w] = "sv_enter"]
    /\ UNCHANGED nonTrackerVars
    /\ UNCHANGED <<disk, tlock, targ, tdata, marked, crashed, fresh>>

\* save lines 76-84: re-enter the lock, build the document from self.files.
SaveBuild(w) ==
    /\ tpc[w] = "sv_enter"
    /\ ~crashed
    /\ TLockAvailable(w)
    /\ tlock' = [owner |-> w, count |-> tlock.count + 1]
    /\ tdata' = [tdata EXCEPT ![w] = {to_dict(tfiles[p]) : p \in DOMAIN tfiles}]
    /\ tpc' = [tpc EXCEPT ![w] = "sv_open"]
    /\ UNCHANGED nonTrackerVars
    /\ UNCHANGED <<tfiles, disk, targ, marked, crashed, fresh>>

\* save line 86: open(self.progress_file, "w") truncates the document in place.
SaveOpen(w) ==
    /\ tpc[w] = "sv_open"
    /\ ~crashed
    /\ disk' = [valid |-> FALSE, present |-> TRUE, files |-> {}]
    /\ tpc' = [tpc EXCEPT ![w] = "sv_dump"]
    /\ UNCHANGED nonTrackerVars
    /\ UNCHANGED <<tfiles, tlock, targ, tdata, marked, crashed, fresh>>

\* save line 87 and the end of both with blocks of save: json.dump writes the
\* document, the file is closed, the inner hold of the lock is given back.
SaveDump(w) ==
    /\ tpc[w] = "sv_dump"
    /\ ~crashed
    /\ disk' = [valid |-> TRUE, present |-> TRUE, files |-> tdata[w]]
    /\ tlock' = TRelease
    /\ tpc' = [tpc EXCEPT ![w] = "mc_exit"]
    /\ UNCHANGED nonTrackerVars
    /\ UNCHANGED <<tfiles, targ, tdata, marked, crashed, fresh>>

\* End of the with block of mark_complete: the lock is released.
MarkRelease(w) ==
    /\ tpc[w] = "mc_exit"
    /\ ~crashed
    /\ tlock' = TRelease
    /\ tpc' = [tpc EXCEPT ![w] = "idle"]
    /\ targ' = [targ EXCEPT ![w] = NoArg]
    /\ tdata' = [tdata EXCEPT ![w] = {}]
    /\ UNCHANGED nonTrackerVars
    /\ UNCHANGED <<tfiles, disk, marked, crashed, fresh>>

\* The process is killed; the document stays as it is on disk.
Crash ==
    /\ ~crashed
    /\ crashed' = TRUE
    /\ UNCHANGED nonTrackerVars
    /\ UNCHANGED <<tfiles, disk, tlock, tpc, targ, tdata, marked, fresh>>

\* ProgressTracker(output_dir) is constructed anew on the same directory
\* (progress.py 52-73), once no call is running or the process was killed.
ConstructFresh ==
    /\ ~fresh.made
    /\ crashed \/ \A w \in TWorkers : tpc[w] = "idle"
    /\ fresh' = [made |-> TRUE, ok |-> _load(disk).ok, files |-> _load(disk).files]
    /\ UNCHANGED nonTrackerVars
    /\ UNCHANGED <<tfiles, disk, tlock, tpc, targ, tdata, marked, crashed>>

NextTracker ==
    \/ \E w \in TWorkers : MarkCall(w)
    \/ \E w \in TWorkers : MarkAcquire(w)
    \/ \E w \in TWorkers : MarkPut(w)
    \/ \E w \in TWorkers : SaveBuild(w)
    \/ \E w \in TWorkers : SaveOpen(w)
    \/ \E w \in TWorkers : SaveDump(w)
    \/ \E w \in TWorkers : MarkRelease(w)
    \/ Crash
    \/ ConstructFresh

SpecTracker == InitTracker /\ [][NextTracker]_vars

----------------------------------------------------------------------------
(* Claims about the ProgressTracker *)

AllMarked == UNION {marked[w] : w \in TWorkers}

TQuiescent == ~crashed /\ \A w \in TWorkers : tpc[w] = "idle"

\* C11: a new tracker constructed on the same directory after any sequence of
\* completed mark_complete calls reports is_complete true for exactly the keys
\* marked, each with the size and checksum it was last marked with, and the
\* same get_stats totals as the first tracker.
C11_RoundTrip ==
    (fresh.made /\ ~crashed) =>
        /\ fresh.ok
        /\ \A p \in AllPaths :
              /\ is_complete(fresh.files, p) <=> p \in AllMarked
              /\ p \in AllMarked =>
                    /\ fresh.files[p].size = tfiles[p].size
                    /\ fresh.files[p].checksum = tfiles[p].checksum
        /\ get_stats(fresh.files) = get_stats(tfiles)
        /\ get_stats(fresh.files).files_completed = Cardinality(AllMarked)

\* C11 witness: a new tracker built after marks by every worker, with
\* different sizes, sees at least two completed files.
C11_Witness ==
    /\ fresh.made /\ ~crashed
    /\ fresh.ok
    /\ \A w \in TWorkers : marked[w] # {}
    /\ \E p, q \in AllMarked : fresh.files[p].size # fresh.files[q].size
    /\ get_stats(fresh.files).files_completed >= 2

\* C12: when the workers' concurrent mark_complete calls have all returned, no
\* update is lost: the map and the checkpoint document both hold exactly the
\* keys marked, K * M entries once each of K workers has marked its M keys.
C12_NoLostUpdate ==
    TQuiescent =>
        /\ DOMAIN tfiles = AllMarked
        /\ disk.valid
        /\ disk.present <=> AllMarked # {}
        /\ {d.path : d \in disk.files} = AllMarked
        /\ Cardinality(disk.files) = Cardinality(AllMarked)
        /\ (\A w \in TWorkers : Cardinality(marked[w]) = KeysPerWorker) =>
              /\ Cardinality(DOMAIN tfiles) = NumWorkers * KeysPerWorker
              /\ Cardinality(disk.files) = NumWorkers * KeysPerWorker

\* C12 witness: every worker has marked all of its keys and returned.
C12_Witness ==
    /\ TQuiescent
    /\ \A w \in TWorkers : marked[w] = WorkerPaths(w)
    /\ Cardinality(disk.files) = NumWorkers * KeysPerWorker

\* C13: whatever the moment the process is killed, constructing a tracker on
\* the directory afterwards loads the checkpoint document successfully.
C13_LoadAfterCrash == (fresh.made /\ crashed) => fresh.ok

----------------------------------------------------------------------------
(* download_file_with_retry (download.py 251-325)                          *)
(* One call at a time on one output directory; a file is [obj, q, v]: the  *)
(* object whose bytes it holds, q "partial" (transfer cut short), "good"   *)
(* (complete, MD5 equal to the object's) or "corrupt" (complete, other     *)
(* MD5), and v whether verify_checksum compared it ("passed", "failed").   *)

ETags == {"md5", "multipart", "none"}

\* retry.py 59 / 111: attempts = max(max_retries, 1)
attemptsFor(r) == IF r >= 1 THEN r ELSE 1

\* checksum.py 38-68: a multipart ETag is skipped, otherwise the MD5 of the
\* file is compared with the ETag of the object asked for.
verify_checksum(f, k, etag) == etag = "multipart" \/ (f.obj = k /\ f.q = "good")

\* Path.unlink()
unlinkNothing(files, p) == files

unlink(files, p) == [files EXCEPT ![p] = Absent]

DlTemp == temp_path(local_path(dl.key))

DlFinal == local_path(dl.key)

InitDownload ==
    /\ credentials = NoCreds
    /\ client = 0
    /\ refresh_count = 0
    /\ lock = 0
    /\ now = 0
    /\ fetches = 0
    /\ ncalls = 0
    /\ pc = [t \in Threads |-> "idle"]
    /\ op = [t \in Threads |-> "none"]
    /\ result = [t \in Threads |-> 0]
    /\ credsAtReturn = [t \in Threads |-> 0]
    /\ entry = NoEntry
    /\ path = [t \in Threads |-> "none"]
    /\ mode = "plain"
    /\ hasManager = FALSE
    /\ max_retries = 0
    /\ base_delay = 1
    /\ max_delay = 1
    /\ script = <<>>
    /\ rpc = "off"
    /\ attempt = 0
    /\ calls = 0
    /\ callClient = <<>>
    /\ rclient = 0
    /\ credential_refreshed = FALSE
    /\ refreshCalls = 0
    /\ sleeps = <<>>
    /\ last_exception = 0
    /\ outcome = [kind |-> "none", inv |-> 0]
    /\ tfiles = <<>>
    /\ disk = NoDocument
    /\ tlock = [owner |-> 0, count |-> 0]
    /\ tpc = [w \in TWorkers |-> "idle"]
    /\ targ = [w \in TWorkers |-> NoArg]
    /\ tdata = [w \in TWorkers |-> {}]
    /\ marked = [w \in TWorkers |-> {}]
    /\ crashed = FALSE
    /\ fresh = NotConstructed
    /\ fs = [p \in Paths |-> Absent]
    /\ dl = NoDownload
    /\ omode = "sequential"
    /\ oworkers = 1
    /\ behaviour = [o \in Objects |-> "unknown"]
    /\ mpc = "idle"
    /\ mcur = 0
    /\ idx = 0
    /\ queue = <<>>
    /\ wpc = [w \in PWorkers |-> "idle"]
    /\ wobj = [w \in PWorkers |-> 0]
    /\ futures = [o \in Objects |-> "none"]
    /\ olocks = NoLocks
    /\ downloaded = {}
    /\ failed = 0
    /\ failedKeys = {}
    /\ ofiles = {}
    /\ checkpointed = {}
    /\ agg = [completed |-> 0, failed |-> 0]
    /\ interrupted = FALSE
    /\ pendingAtInterrupt = {}
    /\ exit_code = NotExited
    /\ prev = NoPrev
    /\ input = NoInput
    /\ output = NoOutput
    /\ reader = NoReader
    /\ run = NoRun

\* download_file_with_retry is called (lines 270-274: mkdir, temp_path).
DownloadCall(k, r, sv, et) ==
    /\ dl.pc = "idle"
    /\ dl' = [pc |-> "attempt", key |-> k, retries |-> r, attempt |-> 1,
              skip_verify |-> sv, etag |-> et, raised |-> "none", result |-> "none"]
    /\ UNCHANGED fs
    /\ UNCHANGED nonDownloadVars

\* _download (276-296): client.download_file has written part of the object
\* into temp_path.
TransferWrites ==
    /\ dl.pc = "attempt"
    /\ fs' = [fs EXCEPT ![DlTemp] = [obj |-> dl.key, q |-> "partial", v |-> "none"]]
    /\ UNCHANGED dl
    /\ UNCHANGED nonDownloadVars

\* _download returns: temp_path holds a complete file, with the right bytes or not.
TransferCompletes(q) ==
    /\ dl.pc = "attempt"
    /\ fs' = [fs EXCEPT ![DlTemp] = [obj |-> dl.key, q |-> q, v |-> "none"]]
    /\ dl' = [dl EXCEPT !.pc = "verify"]
    /\ UNCHANGED nonDownloadVars

\* _download raises a retryable error: the retry function sleeps and tries
\* again, or raises RetryExhausted after the last attempt (retry.py 143-161).
TransferFailsRetryable ==
    /\ dl.pc = "attempt"
    /\ IF dl.attempt >= attemptsFor(dl.retries)
       THEN dl' = [dl EXCEPT !.pc = "cleanup", !.raised = "RetryExhausted"]
       ELSE dl' = [dl EXCEPT !.attempt = dl.attempt + 1]
    /\ UNCHANGED fs
    /\ UNCHANGED nonDownloadVars

\* _download raises an error that is not retryable (retry.py 154-155).
TransferFailsOther ==
    /\ dl.pc = "attempt"
    /\ dl' = [dl EXCEPT !.pc = "cleanup", !.raised = "Other"]
    /\ UNCHANGED fs
    /\ UNCHANGED nonDownloadVars

\* Lines 312-313: if not skip_verify and expected_etag: verify_checksum(...).
Verify ==
    /\ dl.pc = "verify"
    /\ IF ~dl.skip_verify /\ dl.etag # "none"
       THEN IF verify_checksum(fs[DlTemp], dl.key, dl.etag)
            THEN /\ fs' = [fs EXCEPT ![DlTemp].v = "passed"]
                 /\ dl' = [dl EXCEPT !.pc = "rename"]
            ELSE /\ fs' = [fs EXCEPT ![DlTemp].v = "failed"]
                 /\ dl' = [dl EXCEPT !.pc = "cleanup", !.raised = "ChecksumMismatch"]
       ELSE /\ fs' = fs
            /\ dl' = [dl EXCEPT !.pc = "rename"]
    /\ UNCHANGED nonDownloadVars

\* Line 315: temp_path.rename(local_path); the call returns.
Rename ==
    /\ dl.pc = "rename"
    /\ fs' = [fs EXCEPT ![DlFinal] = fs[DlTemp], ![DlTemp] = Absent]
    /\ dl' = [NoDownload EXCEPT !.key = dl.key, !.result = "ok"]
    /\ UNCHANGED nonDownloadVars

\* Line 315 raises OSError.
RenameFails ==
    /\ dl.pc = "rename"
    /\ dl' = [dl EXCEPT !.pc = "cleanup", !.raised = "Other"]
    /\ UNCHANGED fs
    /\ UNCHANGED nonDownloadVars

\* Lines 318-325: both except clauses unlink temp_path if it exists and
\* re-raise.
Cleanup ==
    /\ dl.pc = "cleanup"
    /\ fs' = IF fs[DlTemp] # Absent THEN unlink(fs, DlTemp) ELSE fs
    /\ dl' = [NoDownload EXCEPT !.key = dl.key, !.raised = dl.raised,
                                  !.result = dl.raised]
    /\ UNCHANGED nonDownloadVars

\* A KeyboardInterrupt is raised inside the try block (during the transfer, a
\* backoff sleep, verify_checksum or the rename) or inside an except clause
\* before its unlink: it is not an Exception, so neither except clause
\* (318-325) handles it and it leaves the function as it is.
DownloadInterrupted ==
    /\ dl.pc \in {"attempt", "verify", "rename", "cleanup"}
    /\ dl' = [NoDownload EXCEPT !.key = dl.key, !.result = "KeyboardInterrupt"]
    /\ UNCHANGED fs
    /\ UNCHANGED nonDownloadVars

\* The process is killed during the call; a later run may call again.
Kill ==
    /\ dl.pc \in {"attempt", "verify", "rename", "cleanup"}
    /\ dl' = [NoDownload EXCEPT !.key = dl.key, !.result = "killed"]
    /\ UNCHANGED fs
    /\ UNCHANGED nonDownloadVars

NextDownload ==
    \/ \E k \in Keys, r \in {0, MaxRetries}, sv \in BOOLEAN, et \in ETags :
          DownloadCall(k, r, sv, et)
    \/ TransferWrites
    \/ \E q \in {"good", "corrupt"} : TransferCompletes(q)
    \/ TransferFailsRetryable
    \/ TransferFailsOther
    \/ Verify
    \/ Rename
    \/ RenameFails
    \/ Cleanup
    \/ DownloadInterrupted
    \/ Kill

SpecDownload == InitDownload /\ [][NextDownload]_vars

----------------------------------------------------------------------------
(* Claims about download_file_with_retry *)

\* C14: in every reachable state the file at an object's final local path, if
\* any, holds that object's bytes, is complete, and has not failed
\* verify_checksum; it got there by the rename of the object's temporary file.
C14_FinalNeverPartial ==
    \A k \in Keys :
        LET f == fs[local_path(k)] IN
        f # Absent => (f.obj = k /\ f.q # "partial" /\ f.v # "failed")

\* C15: when download_file_with_retry has ended in failure, the temporary file
\* of its target does not exist and the failure raised inside is the one that
\* reached the caller.
C15_TempRemovedOnFailure ==
    (dl.pc = "idle" /\ dl.result \in {"RetryExhausted", "ChecksumMismatch", "Other"}) =>
        /\ fs[temp_path(local_path(dl.key))] = Absent
        /\ dl.result = dl.raised

\* C15 witness: a call that ended with ChecksumMismatch after a complete
\* transfer, on a directory that already holds a downloaded file.
C15_Witness ==
    /\ dl.pc = "idle"
    /\ dl.result = "ChecksumMismatch"
    /\ \E k \in Keys : fs[local_path(k)].q = "good"

\* C23: a checksum mismatch found after a complete download is retried like a
\* network failure, so the call raises ChecksumMismatch only when the attempt
\* that downloaded the mismatching file was the last one of the retry budget.
C23_MismatchRetried ==
    (dl.pc = "cleanup" /\ dl.raised = "ChecksumMismatch") =>
        dl.attempt = attemptsFor(dl.retries)

\* C40: after download_file_with_retry has exited, by returning or by any
\* exception, a KeyboardInterrupt raised during the download or a backoff
\* sleep included, the temporary file of its target does not exist.
C40_NoTempAfterExit ==
    (dl.pc = "idle" /\ dl.result \notin {"none", "killed"}) =>
        fs[temp_path(local_path(dl.key))] = Absent

----------------------------------------------------------------------------
(* The download phase of main (__main__.py 438-456): _download_sequential, *)
(* or _download_parallel with download_worker tasks on a thread pool.      *)
(* Objects are numbered in list order; behaviour[o] says what processing o *)
(* meets: "ok" (downloaded and verified), "fail" (download_file_with_retry *)
(* raises: network error, retries exhausted, checksum mismatch), "unsafe"  *)
(* (safe_join raises PathTraversalError).                                  *)

Behaviours == {"ok", "fail", "unsafe"}

\* The behaviour of an object shows when it is first processed and stays.
Draw(b) == IF b = "unknown" THEN Behaviours ELSE {b}

\* exit_codes.py
SUCCESS == 0

PARTIAL_FAILURE == 4

USER_CANCELLED == 5

\* safe_join(output_dir, relative_path) returns a path
safe_join(b) == b # "unsafe"

\* `failed += 1` (__main__.py 222, 250, 304)
CountFailedSkip(f) == f

CountFailed(f) == f + 1

\* DownloadResult.success of download_worker (download.py 381-398)
WorkerResultAlways(b) == TRUE

WorkerResult(b) == b = "ok"

\* Leaving a `with lock:` block, normally or by an exception, releases the
\* lock held by thread t.
UnwindKeeps(lk, t) == lk

Unwind(lk, t) == [n \in DOMAIN lk |-> IF lk[n] = t THEN Free ELSE lk[n]]

\* shutdown(wait=True) joins the pool threads: they end when the work queue
\* is empty and no task is running.
shutdown_done(q, p) == q = <<>> /\ \A w \in PWorkers : p[w] = "idle"

InitOrch ==
    /\ credentials = NoCreds
    /\ client = 0
    /\ refresh_count = 0
    /\ lock = 0
    /\ now = 0
    /\ fetches = 0
    /\ ncalls = 0
    /\ pc = [t \in Threads |-> "idle"]
    /\ op = [t \in Threads |-> "none"]
    /\ result = [t \in Threads |-> 0]
    /\ credsAtReturn = [t \in Threads |-> 0]
    /\ entry = NoEntry
    /\ path = [t \in Threads |-> "none"]
    /\ mode = "plain"
    /\ hasManager = FALSE
    /\ max_retries = 0
    /\ base_delay = 1
    /\ max_delay = 1
    /\ script = <<>>
    /\ rpc = "off"
    /\ attempt = 0
    /\ calls = 0
    /\ callClient = <<>>
    /\ rclient = 0
    /\ credential_refreshed = FALSE
    /\ refreshCalls = 0
    /\ sleeps = <<>>
    /\ last_exception = 0
    /\ outcome = [kind |-> "none", inv |-> 0]
    /\ tfiles = <<>>
    /\ disk = NoDocument
    /\ tlock = [owner |-> 0, count |-> 0]
    /\ tpc = [w \in TWorkers |-> "idle"]
    /\ targ = [w \in TWorkers |-> NoArg]
    /\ tdata = [w \in TWorkers |-> {}]
    /\ marked = [w \in TWorkers |-> {}]
    /\ crashed = FALSE
    /\ fresh = NotConstructed
    /\ fs = [p \in Paths |-> Absent]
    /\ dl = NoDownload
    /\ omode \in {"sequential", "pool"}
    /\ oworkers \in PWorkers
    /\ omode = "sequential" => oworkers = 1
    /\ behaviour = [o \in Objects |-> "unknown"]
    /\ mpc = IF omode = "sequential" THEN "seq_loop" ELSE "submit"
    /\ mcur = 0
    /\ idx = 0
    /\ queue = <<>>
    /\ wpc = [w \in PWorkers |-> "idle"]
    /\ wobj = [w \in PWorkers |-> 0]
    /\ futures = [o \in Objects |-> "none"]
    /\ olocks = NoLocks
    /\ downloaded = {}
    /\ failed = 0
    /\ failedKeys = {}
    /\ ofiles = {}
    /\ checkpointed = {}
    /\ agg = [completed |-> 0, failed |-> 0]
    /\ interrupted = FALSE
    /\ pendingAtInterrupt = {}
    /\ exit_code = NotExited
    /\ prev = NoPrev
    /\ input = NoInput
    /\ output = NoOutput
    /\ reader = NoReader
    /\ run = NoRun

\* _download_sequential 212-223: take the next object, whose behaviour is b;
\* safe_join raising PathTraversalError counts a failure and continues with the
\* next object.
SeqSafeJoin(b) ==
    /\ omode = "sequential"
    /\ mpc = "seq_loop"
    /\ idx < NumObjects
    /\ b \in Draw(behaviour[idx + 1])
    /\ behaviour' = [behaviour EXCEPT ![idx + 1] = b]
    /\ mpc' = IF safe_join(b) THEN "seq_get_client" ELSE "seq_loop"
    /\ idx' = IF safe_join(b) THEN idx ELSE idx + 1
    /\ failed' = IF safe_join(b) THEN failed ELSE CountFailed(failed)
    /\ failedKeys' = IF safe_join(b) THEN failedKeys ELSE failedKeys \cup {idx + 1}
    /\ UNCHANGED <<omode, oworkers, mcur, queue, wpc, wobj, futures, olocks,
                    downloaded, ofiles, checkpointed, agg, interrupted,
                    pendingAtInterrupt, exit_code, prev>>
    /\ UNCHANGED nonOrchVars

\* __main__.py 226: cred_manager.get_client() returns the cached client
\* (auth.py 167-168).
SeqGetClientFast ==
    /\ omode = "sequential"
    /\ mpc = "seq_get_client"
    /\ mpc' = "seq_download"
    /\ UNCHANGED <<omode, oworkers, behaviour, mcur, idx, queue, wpc, wobj,
                    futures, olocks, downloaded, failed, failedKeys, ofiles,
                    checkpointed, agg, interrupted, pendingAtInterrupt,
                    exit_code, prev>>
    /\ UNCHANGED nonOrchVars

\* __main__.py 226: a refresh is due, get_client() takes the lock (auth.py 171).
SeqGetClientSlow ==
    /\ omode = "sequential"
    /\ mpc = "seq_get_client"
    /\ olocks.cred = Free
    /\ mpc' = "seq_refresh"
    /\ olocks' = [olocks EXCEPT !.cred = MainThread]
    /\ UNCHANGED <<omode, oworkers, behaviour, mcur, idx, queue, wpc, wobj,
                    futures, downloaded, failed, failedKeys, ofiles,
                    checkpointed, agg, interrupted, pendingAtInterrupt,
                    exit_code, prev>>
    /\ UNCHANGED nonOrchVars

\* auth.py 173-175: the refresh succeeds, the lock is released.
SeqRefreshOk ==
    /\ omode = "sequential"
    /\ mpc = "seq_refresh"
    /\ mpc' = "seq_download"
    /\ olocks' = Unwind(olocks, MainThread)
    /\ UNCHANGED <<omode, oworkers, behaviour, mcur, idx, queue, wpc, wobj,
                    futures, downloaded, failed, failedKeys, ofiles,
                    checkpointed, agg, interrupted, pendingAtInterrupt,
                    exit_code, prev>>
    /\ UNCHANGED nonOrchVars

\* auth.py 154: fetch_credentials raises AuthenticationError; the call at
\* __main__.py 226 is outside the try block and main (439-451) catches only
\* KeyboardInterrupt, so the process ends with the exception.
SeqRefreshFails ==
    /\ omode = "sequential"
    /\ mpc = "seq_refresh"
    /\ mpc' = "exited"
    /\ olocks' = Unwind(olocks, MainThread)
    /\ exit_code' = Uncaught
    /\ UNCHANGED <<omode, oworkers, behaviour, mcur, idx, queue, wpc, wobj,
                    futures, downloaded, failed, failedKeys, ofiles,
                    checkpointed, agg, interrupted, pendingAtInterrupt, prev>>
    /\ UNCHANGED nonOrchVars

\* The sequential loop goes on to mark_complete whether or not
\* download_file_with_retry returned.
SeqDownloadMarksAnyway ==
    /\ omode = "sequential"
    /\ mpc = "seq_download"
    /\ mpc' = "seq_mark"
    /\ ofiles' = IF behaviour[idx + 1] = "ok" THEN ofiles \cup {idx + 1} ELSE ofiles
    /\ UNCHANGED <<omode, oworkers, behaviour, mcur, idx, queue, wpc, wobj,
                    futures, olocks, downloaded, failed, failedKeys,
                    checkpointed, agg, interrupted, pendingAtInterrupt,
                    exit_code, prev>>
    /\ UNCHANGED nonOrchVars

\* __main__.py 228-250: download_file_with_retry returns (the file is at its
\* final path) or raises an Exception, which counts a failure.
SeqDownload ==
    /\ omode = "sequential"
    /\ mpc = "seq_download"
    /\ mpc' = IF behaviour[idx + 1] = "ok" THEN "seq_mark" ELSE "seq_loop"
    /\ idx' = IF behaviour[idx + 1] = "ok" THEN idx ELSE idx + 1
    /\ failed' = IF behaviour[idx + 1] = "ok" THEN failed ELSE CountFailed(failed)
    /\ failedKeys' = IF behaviour[idx + 1] = "ok" THEN failedKeys ELSE failedKeys \cup {idx + 1}
    /\ ofiles' = IF behaviour[idx + 1] = "ok" THEN ofiles \cup {idx + 1} ELSE ofiles
    /\ UNCHANGED <<omode, oworkers, behaviour, mcur, queue, wpc, wobj,
                    futures, olocks, downloaded, checkpointed, agg,
                    interrupted, pendingAtInterrupt, exit_code, prev>>
    /\ UNCHANGED nonOrchVars

\* __main__.py 240: tracker.mark_complete takes the tracker lock.
SeqMarkAcquire ==
    /\ omode = "sequential"
    /\ mpc = "seq_mark"
    /\ olocks.tracker = Free
    /\ mpc' = "seq_mark_held"
    /\ olocks' = [olocks EXCEPT !.tracker = MainThread]
    /\ UNCHANGED <<omode, oworkers, behaviour, mcur, idx, queue, wpc, wobj,
                    futures, downloaded, failed, failedKeys, ofiles,
                    checkpointed, agg, interrupted, pendingAtInterrupt,
                    exit_code, prev>>
    /\ UNCHANGED nonOrchVars

\* __main__.py 240-245: the checkpoint is written, the lock released, the key
\* appended to downloaded.
SeqMarkRelease ==
    /\ omode = "sequential"
    /\ mpc = "seq_mark_held"
    /\ mpc' = "seq_loop"
    /\ idx' = idx + 1
    /\ olocks' = Unwind(olocks, MainThread)
    /\ downloaded' = downloaded \cup {idx + 1}
    /\ checkpointed' = checkpointed \cup {idx + 1}
    /\ UNCHANGED <<omode, oworkers, behaviour, mcur, queue, wpc, wobj,
                    futures, failed, failedKeys, ofiles, agg, interrupted,
                    pendingAtInterrupt, exit_code, prev>>
    /\ UNCHANGED nonOrchVars

\* __main__.py 252 and 453-456: the loop is over, main returns its exit code.
SeqReturn ==
    /\ omode = "sequential"
    /\ mpc = "seq_loop"
    /\ idx = NumObjects
    /\ mpc' = "exited"
    /\ exit_code' = IF failed > 0 THEN PARTIAL_FAILURE ELSE SUCCESS
    /\ UNCHANGED <<omode, oworkers, behaviour, mcur, idx, queue, wpc, wobj,
                    futures, olocks, downloaded, failed, failedKeys, ofiles,
                    checkpointed, agg, interrupted, pendingAtInterrupt, prev>>
    /\ UNCHANGED nonOrchVars

\* __main__.py 246-247 and 449-451: the KeyboardInterrupt reaches main, which
\* returns USER_CANCELLED.
SeqCancelled ==
    /\ omode = "sequential"
    /\ mpc = "cancelled"
    /\ mpc' = "exited"
    /\ exit_code' = USER_CANCELLED
    /\ UNCHANGED <<omode, oworkers, behaviour, mcur, idx, queue, wpc, wobj,
                    futures, olocks, downloaded, failed, failedKeys, ofiles,
                    checkpointed, agg, interrupted, pendingAtInterrupt, prev>>
    /\ UNCHANGED nonOrchVars

\* _download_parallel 277-291: executor.submit(download_worker, ...) for the
\* next object of to_download.
PoolSubmit ==
    /\ omode = "pool"
    /\ mpc = "submit"
    /\ idx < NumObjects
    /\ idx' = idx + 1
    /\ queue' = Append(queue, idx + 1)
    /\ futures' = [futures EXCEPT ![idx + 1] = "pending"]
    /\ UNCHANGED <<omode, oworkers, behaviour, mpc, mcur, wpc, wobj, olocks,
                    downloaded, failed, failedKeys, ofiles, checkpointed,
                    agg, interrupted, pendingAtInterrupt, exit_code, prev>>
    /\ UNCHANGED nonOrchVars

\* _download_parallel 293: all tasks are submitted, as_completed starts.
PoolWait ==
    /\ omode = "pool"
    /\ mpc = "submit"
    /\ idx = NumObjects
    /\ mpc' = "wait"
    /\ UNCHANGED <<omode, oworkers, behaviour, mcur, idx, queue, wpc, wobj,
                    futures, olocks, downloaded, failed, failedKeys, ofiles,
                    checkpointed, agg, interrupted, pendingAtInterrupt,
                    exit_code, prev>>
    /\ UNCHANGED nonOrchVars

\* A pool thread takes the next task from the work queue and enters
\* download_worker (download.py 340-342) for an object whose behaviour is b.
TaskStart(w, b) ==
    /\ w <= oworkers
    /\ wpc[w] = "idle"
    /\ queue # <<>>
    /\ b \in Draw(behaviour[Head(queue)])
    /\ behaviour' = [behaviour EXCEPT ![Head(queue)] = b]
    /\ queue' = Tail(queue)
    /\ wpc' = [wpc EXCEPT ![w] = "get_client"]
    /\ wobj' = [wobj EXCEPT ![w] = Head(queue)]
    /\ futures' = [futures EXCEPT ![Head(queue)] = "running"]
    /\ UNCHANGED <<omode, oworkers, mpc, mcur, idx, olocks, downloaded,
                    failed, failedKeys, ofiles, checkpointed, agg,
                    interrupted, pendingAtInterrupt, exit_code, prev>>
    /\ UNCHANGED nonOrchVars

\* download.py 345-359: credential_manager.get_client() returns the cached
\* client; safe_join raising PathTraversalError returns a failed DownloadResult.
WGetClientFast(w) ==
    /\ wpc[w] = "get_client"
    /\ wpc' = [wpc EXCEPT ![w] = IF safe_join(behaviour[wobj[w]]) THEN "download" ELSE "idle"]
    /\ wobj' = [wobj EXCEPT ![w] = IF safe_join(behaviour[wobj[w]]) THEN wobj[w] ELSE 0]
    /\ futures' = IF safe_join(behaviour[wobj[w]]) THEN futures ELSE [futures EXCEPT ![wobj[w]] = "failed"]
    /\ UNCHANGED <<omode, oworkers, behaviour, mpc, mcur, idx, queue, olocks,
                    downloaded, failed, failedKeys, ofiles, checkpointed,
                    agg, interrupted, pendingAtInterrupt, exit_code, prev>>
    /\ UNCHANGED nonOrchVars

\* download.py 345: a refresh is due, get_client() takes the lock (auth.py 171).
WGetClientSlow(w) ==
    /\ wpc[w] = "get_client"
    /\ olocks.cred = Free
    /\ wpc' = [wpc EXCEPT ![w] = "refresh"]
    /\ olocks' = [olocks EXCEPT !.cred = w]
    /\ UNCHANGED <<omode, oworkers, behaviour, mpc, mcur, idx, queue, wobj,
                    futures, downloaded, failed, failedKeys, ofiles,
                    checkpointed, agg, interrupted, pendingAtInterrupt,
                    exit_code, prev>>
    /\ UNCHANGED nonOrchVars

\* auth.py 173-175: the refresh succeeds, the lock is released; then
\* download.py 347-359 as after the cached client.
WRefreshOk(w) ==
    /\ wpc[w] = "refresh"
    /\ wpc' = [wpc EXCEPT ![w] = IF safe_join(behaviour[wobj[w]]) THEN "download" ELSE "idle"]
    /\ wobj' = [wobj EXCEPT ![w] = IF safe_join(behaviour[wobj[w]]) THEN wobj[w] ELSE 0]
    /\ futures' = IF safe_join(behaviour[wobj[w]]) THEN futures ELSE [futures EXCEPT ![wobj[w]] = "failed"]
    /\ olocks' = Unwind(olocks, w)
    /\ UNCHANGED <<omode, oworkers, behaviour, mpc, mcur, idx, queue,
                    downloaded, failed, failedKeys, ofiles, checkpointed,
                    agg, interrupted, pendingAtInterrupt, exit_code, prev>>
    /\ UNCHANGED nonOrchVars

\* auth.py 154: fetch_credentials raises AuthenticationError; download.py 345 is
\* outside the try block, so the task ends with the exception set on its future.
WRefreshFails(w) ==
    /\ wpc[w] = "refresh"
    /\ wpc' = [wpc EXCEPT ![w] = "idle"]
    /\ wobj' = [wobj EXCEPT ![w] = 0]
    /\ futures' = [futures EXCEPT ![wobj[w]] = "raised"]
    /\ olocks' = Unwind(olocks, w)
    /\ UNCHANGED <<omode, oworkers, behaviour, mpc, mcur, idx, queue,
                    downloaded, failed, failedKeys, ofiles, checkpointed,
                    agg, interrupted, pendingAtInterrupt, exit_code, prev>>
    /\ UNCHANGED nonOrchVars

\* download.py 365-379 / 388-390: download_file_with_retry returns (the file is
\* at its final path) or raises an Exception; complete_file() or fail_file()
\* takes the AggregateProgress lock (progress.py 158 / 167).
WDownload(w) ==
    /\ wpc[w] = "download"
    /\ olocks.agg = Free
    /\ wpc' = [wpc EXCEPT ![w] = "agg_held"]
    /\ olocks' = [olocks EXCEPT !.agg = w]
    /\ ofiles' = IF behaviour[wobj[w]] = "ok" THEN ofiles \cup {wobj[w]} ELSE ofiles
    /\ UNCHANGED <<omode, oworkers, behaviour, mpc, mcur, idx, queue, wobj,
                    futures, downloaded, failed, failedKeys, checkpointed,
                    agg, interrupted, pendingAtInterrupt, exit_code, prev>>
    /\ UNCHANGED nonOrchVars

\* progress.py 159 / 168 and download.py 381-398: the counter is incremented,
\* the lock released, the DownloadResult returned.
WAggRelease(w) ==
    /\ wpc[w] = "agg_held"
    /\ wpc' = [wpc EXCEPT ![w] = "idle"]
    /\ wobj' = [wobj EXCEPT ![w] = 0]
    /\ futures' = [futures EXCEPT ![wobj[w]] = IF WorkerResult(behaviour[wobj[w]]) THEN "success" ELSE "failed"]
    /\ olocks' = Unwind(olocks, w)
    /\ agg' = IF behaviour[wobj[w]] = "ok" THEN [agg EXCEPT !.completed = agg.completed + 1] ELSE [agg EXCEPT !.failed = agg.failed + 1]
    /\ UNCHANGED <<omode, oworkers, behaviour, mpc, mcur, idx, queue,
                    downloaded, failed, failedKeys, ofiles, checkpointed,
                    interrupted, pendingAtInterrupt, exit_code, prev>>
    /\ UNCHANGED nonOrchVars

\* _download_parallel 293-296: as_completed yields a finished future whose
\* result is a success; tracker.mark_complete takes the tracker lock.
PoolCollectSuccess(o) ==
    /\ omode = "pool"
    /\ mpc = "wait"
    /\ futures[o] = "success"
    /\ olocks.tracker = Free
    /\ mpc' = "pool_mark_held"
    /\ mcur' = o
    /\ futures' = [futures EXCEPT ![o] = "consumed"]
    /\ olocks' = [olocks EXCEPT !.tracker = MainThread]
    /\ UNCHANGED <<omode, oworkers, behaviour, idx, queue, wpc, wobj,
                    downloaded, failed, failedKeys, ofiles, checkpointed,
                    agg, interrupted, pendingAtInterrupt, exit_code, prev>>
    /\ UNCHANGED nonOrchVars

\* _download_parallel 296-301: the checkpoint is written, the lock released,
\* the key appended to downloaded.
PoolMarkRelease ==
    /\ omode = "pool"
    /\ mpc = "pool_mark_held"
    /\ mpc' = "wait"
    /\ mcur' = 0
    /\ olocks' = Unwind(olocks, MainThread)
    /\ downloaded' = downloaded \cup {mcur}
    /\ checkpointed' = checkpointed \cup {mcur}
    /\ UNCHANGED <<omode, oworkers, behaviour, idx, queue, wpc, wobj,
                    futures, failed, failedKeys, ofiles, agg, interrupted,
                    pendingAtInterrupt, exit_code, prev>>
    /\ UNCHANGED nonOrchVars

\* _download_parallel 302-304: the yielded result is a failure.
PoolCollectFailed(o) ==
    /\ omode = "pool"
    /\ mpc = "wait"
    /\ futures[o] = "failed"
    /\ futures' = [futures EXCEPT ![o] = "consumed"]
    /\ failed' = CountFailed(failed)
    /\ failedKeys' = failedKeys \cup {o}
    /\ UNCHANGED <<omode, oworkers, behaviour, mpc, mcur, idx, queue, wpc,
                    wobj, olocks, downloaded, ofiles, checkpointed, agg,
                    interrupted, pendingAtInterrupt, exit_code, prev>>
    /\ UNCHANGED nonOrchVars

\* _download_parallel 294: future.result() re-raises the task's exception; it
\* leaves the loop and the with block, whose exit waits for the pool.
PoolCollectRaised(o) ==
    /\ omode = "pool"
    /\ mpc = "wait"
    /\ futures[o] = "raised"
    /\ mpc' = "drain"
    /\ futures' = [futures EXCEPT ![o] = "consumed"]
    /\ UNCHANGED <<omode, oworkers, behaviour, mcur, idx, queue, wpc, wobj,
                    olocks, downloaded, failed, failedKeys, ofiles,
                    checkpointed, agg, interrupted, pendingAtInterrupt,
                    exit_code, prev>>
    /\ UNCHANGED nonOrchVars

\* _download_parallel 305-308 and __main__.py 453-456: every future was
\* yielded; the executor is shut down and main returns its exit code.
PoolReturn ==
    /\ omode = "pool"
    /\ mpc = "wait"
    /\ \A o \in Objects : futures[o] = "consumed"
    /\ mpc' = "exited"
    /\ exit_code' = IF failed > 0 THEN PARTIAL_FAILURE ELSE SUCCESS
    /\ UNCHANGED <<omode, oworkers, behaviour, mcur, idx, queue, wpc, wobj,
                    futures, olocks, downloaded, failed, failedKeys, ofiles,
                    checkpointed, agg, interrupted, pendingAtInterrupt, prev>>
    /\ UNCHANGED nonOrchVars

\* ThreadPoolExecutor.__exit__ (__main__.py 276): shutdown(wait=True) returns
\* once the pool threads have ended; the exception goes on to main (449-451).
PoolDrained ==
    /\ omode = "pool"
    /\ mpc = "drain"
    /\ shutdown_done(queue, wpc)
    /\ mpc' = "exited"
    /\ exit_code' = IF interrupted THEN USER_CANCELLED ELSE Uncaught
    /\ UNCHANGED <<omode, oworkers, behaviour, mcur, idx, queue, wpc, wobj,
                    futures, olocks, downloaded, failed, failedKeys, ofiles,
                    checkpointed, agg, interrupted, pendingAtInterrupt, prev>>
    /\ UNCHANGED nonOrchVars

\* KeyboardInterrupt is raised in the main thread during the download phase;
\* the with blocks it leaves release the locks the main thread holds. When it
\* arrives during the wait for results (__main__.py 293-304) the tasks still in
\* the work queue are noted.
Interrupt ==
    /\ ~interrupted
    /\ mpc \notin {"exited", "idle"}
    /\ mpc' = IF omode = "sequential" THEN "cancelled" ELSE "drain"
    /\ mcur' = 0
    /\ olocks' = Unwind(olocks, MainThread)
    /\ interrupted' = TRUE
    /\ pendingAtInterrupt' = IF mpc \in {"wait", "pool_mark_held"} THEN {queue[i] : i \in 1..Len(queue)} ELSE {}
    /\ UNCHANGED <<omode, oworkers, behaviour, idx, queue, wpc, wobj,
                    futures, downloaded, failed, failedKeys, ofiles,
                    checkpointed, agg, exit_code, prev>>
    /\ UNCHANGED nonOrchVars

\* The same download list is processed again through the pool path with one
\* worker, on an empty output directory (test_workers_one_equals_sequential).
RunPoolAgain ==
    /\ omode = "sequential"
    /\ mpc = "exited"
    /\ exit_code \in {SUCCESS, PARTIAL_FAILURE}
    /\ ~prev.made
    /\ omode' = "pool"
    /\ oworkers' = 1
    /\ mpc' = "submit"
    /\ idx' = 0
    /\ downloaded' = {}
    /\ failed' = 0
    /\ failedKeys' = {}
    /\ ofiles' = {}
    /\ checkpointed' = {}
    /\ exit_code' = NotExited
    /\ prev' = [made |-> TRUE, succeeded |-> downloaded, failedKeys |-> failedKeys, files |-> ofiles]
    /\ UNCHANGED <<behaviour, mcur, queue, wpc, wobj, futures, olocks, agg,
                    interrupted, pendingAtInterrupt>>
    /\ UNCHANGED nonOrchVars

NextOrch ==
    \/ \E b \in Behaviours : SeqSafeJoin(b)
    \/ SeqGetClientFast
    \/ SeqGetClientSlow
    \/ SeqRefreshOk
    \/ SeqRefreshFails
    \/ SeqDownload
    \/ SeqMarkAcquire
    \/ SeqMarkRelease
    \/ SeqReturn
    \/ SeqCancelled
    \/ PoolSubmit
    \/ PoolWait
    \/ \E w \in PWorkers, b \in Behaviours : TaskStart(w, b)
    \/ \E w \in PWorkers : WGetClientFast(w)
    \/ \E w \in PWorkers : WGetClientSlow(w)
    \/ \E w \in PWorkers : WRefreshOk(w)
    \/ \E w \in PWorkers : WRefreshFails(w)
    \/ \E w \in PWorkers : WDownload(w)
    \/ \E w \in PWorkers : WAggRelease(w)
    \/ \E o \in Objects : PoolCollectSuccess(o)
    \/ PoolMarkRelease
    \/ \E o \in Objects : PoolCollectFailed(o)
    \/ \E o \in Objects : PoolCollectRaised(o)
    \/ PoolReturn
    \/ PoolDrained
    \/ Interrupt
    \/ RunPoolAgain

SpecOrch == InitOrch /\ [][NextOrch]_vars

\* Every step but the arrival of an interrupt and the start of a second run:
\* the steps of threads that the scheduler keeps running and of blocking
\* calls that end.
OrchProgress ==
    \/ \E b \in Behaviours : SeqSafeJoin(b)
    \/ SeqGetClientFast
    \/ SeqGetClientSlow
    \/ SeqRefreshOk
    \/ SeqRefreshFails
    \/ SeqDownload
    \/ SeqMarkAcquire
    \/ SeqMarkRelease
    \/ SeqReturn
    \/ SeqCancelled
    \/ PoolSubmit
    \/ PoolWait
    \/ \E w \in PWorkers, b \in Behaviours : TaskStart(w, b)
    \/ \E w \in PWorkers : WGetClientFast(w)
    \/ \E w \in PWorkers : WGetClientSlow(w)
    \/ \E w \in PWorkers : WRefreshOk(w)
    \/ \E w \in PWorkers : WRefreshFails(w)
    \/ \E w \in PWorkers : WDownload(w)
    \/ \E w \in PWorkers : WAggRelease(w)
    \/ \E o \in Objects : PoolCollectSuccess(o)
    \/ PoolMarkRelease
    \/ \E o \in Objects : PoolCollectFailed(o)
    \/ \E o \in Objects : PoolCollectRaised(o)
    \/ PoolReturn
    \/ PoolDrained

FairSpecOrch == InitOrch /\ [][NextOrch]_vars /\ WF_vars(OrchProgress)

----------------------------------------------------------------------------
(* Claims about the download phase *)

NormalExit == mpc = "exited" /\ exit_code \in {SUCCESS, PARTIAL_FAILURE}

\* C16: a per-object failure does not stop the run: when the download phase
\* returns normally, in sequential or pool mode, every object of the list was
\* processed and the downloaded objects plus the failed count make up the
\* length of the list.
C16_FailuresDoNotStop ==
    NormalExit =>
        /\ Cardinality(downloaded) + failed = NumObjects
        /\ downloaded \cup failedKeys = Objects
        /\ downloaded = {o \in Objects : behaviour[o] = "ok"}
        /\ (exit_code = PARTIAL_FAILURE) <=> (\E o \in Objects : behaviour[o] # "ok")

\* C16 witness: a pool run with all its threads ended normally with a
\* downloaded object and a counted failure.
C16_Witness ==
    /\ NormalExit
    /\ omode = "pool" /\ oworkers = PoolWorkers
    /\ downloaded # {}
    /\ failed > 0
    /\ \E o \in Objects : behaviour[o] \in {"fail", "unsafe"}

\* C17: once the download phase has started only a user cancellation aborts
\* the run: it ends either cancelled or normally with every object processed.
C17_OnlyCancellationAborts ==
    mpc = "exited" =>
        \/ exit_code = USER_CANCELLED
        \/ NormalExit /\ downloaded \cup failedKeys = Objects

\* C18: processing the same list with the same per-object behaviour through
\* the pool path with one worker gives the outcome of sequential mode: the same
\* succeeded keys, the same failed keys, the same files at the final paths.
C18_PoolOfOneEqualsSequential ==
    (prev.made /\ NormalExit) =>
        /\ downloaded = prev.succeeded
        /\ failedKeys = prev.failedKeys
        /\ ofiles = prev.files

\* C18 witness: both runs ended normally on a list with a success and a failure.
C18_Witness ==
    /\ prev.made /\ NormalExit
    /\ omode = "pool" /\ oworkers = 1
    /\ prev.succeeded # {}
    /\ prev.failedKeys # {}

\* C19: no task that had not started when the interrupt reached the main
\* thread is started afterwards.
C19_NoStartAfterInterrupt ==
    \A o \in pendingAtInterrupt : futures[o] = "pending"

\* C20: after a user interrupt the run eventually exits reporting cancellation
\* with no credential, tracker or aggregate-progress lock held.
C20_CancelTerminates ==
    interrupted ~> (mpc = "exited" /\ exit_code = USER_CANCELLED /\ olocks = NoLocks)

\* C20 witness: a pool run interrupted while tasks were still queued has exited
\* reporting cancellation.
C20_Witness ==
    /\ interrupted
    /\ omode = "pool"
    /\ pendingAtInterrupt # {}
    /\ mpc = "exited" /\ exit_code = USER_CANCELLED /\ olocks = NoLocks

\* C37: publish precedes checkpoint: in both modes a key is passed to
\* mark_complete only after its file has been renamed to its final path, so
\* in every reachable state, a cancelled or abandoned run included, every key
\* recorded complete by the run has its file at the final path, and a step
\* that records a key finds the file already there.
C37_PublishBeforeCheckpoint ==
    [][/\ checkpointed \subseteq ofiles
       /\ checkpointed' \subseteq ofiles'
       /\ (checkpointed' \ checkpointed) \subseteq ofiles]_vars

\* C37 witness: the run was interrupted with one key recorded complete and
\* another published at its final path but not yet recorded.
C37_Witness ==
    /\ interrupted
    /\ checkpointed # {}
    /\ ofiles \ checkpointed # {}

\* C39: after a parallel run that returned normally, every submitted task
\* having finished with a DownloadResult, the AggregateProgress counters
\* account for every object: completed_files + failed_files is total_files,
\* completed_files is the number of successful results and failed_files the
\* number of failed results, objects rejected for an unsafe path included.
C39_CountersAccountForAll ==
    (omode = "pool" /\ NormalExit) =>
        /\ agg.completed + agg.failed = NumObjects
        /\ agg.completed = Cardinality({o \in Objects : WorkerResult(behaviour[o])})
        /\ agg.failed = Cardinality({o \in Objects : ~WorkerResult(behaviour[o])})

----------------------------------------------------------------------------
(* should_download_file (download.py) *)

\* Sizes an object may have, and values of --max-size.
MaxSize == 2

\* Object keys: strings as sequences of characters, with and without a
\* directory part.
FilterKeys ==
    {<<"a">>, <<"d", "/", "a">>, <<"d", "/", "b">>, <<"d", "/">>}

\* fnmatch patterns given with --include / --exclude.
Patterns == {<<"*">>, <<"a">>, <<"?">>, <<"d", "*">>}

\* An optional argument: None, or a value.
NoPatterns == [given |-> FALSE, v |-> {}]
NoSize == [given |-> FALSE, v |-> 0]
Some(x) == [given |-> TRUE, v |-> x]

\* os.path.basename(key)  (download.py 230): what follows the last "/".
RECURSIVE basename(_)
basename(k) ==
    IF \E i \in 1..Len(k) : k[i] = "/" THEN basename(Tail(k)) ELSE k

\* fnmatch.fnmatch(filename, pattern)  (download.py 233, 239): "*" matches any
\* run of characters, "?" any one character, another character itself.
RECURSIVE fnmatch(_, _)
fnmatch(n, p) ==
    IF p = <<>> THEN n = <<>>
    ELSE IF Head(p) = "*"
         THEN fnmatch(n, Tail(p)) \/ (n # <<>> /\ fnmatch(Tail(n), p))
         ELSE /\ n # <<>>
              /\ Head(p) = "?" \/ Head(p) = Head(n)
              /\ fnmatch(Tail(n), Tail(p))

\* `if include_patterns:` / `if exclude_patterns:`: None and the empty list
\* are both false.
truthy(pats) == pats.given /\ pats.v # {}

\* any(fnmatch.fnmatch(filename, pattern) for pattern in patterns)
any_match(filename, pats) == \E p \in pats.v : fnmatch(filename, p)

\* `max_size is not None and size > max_size`  (download.py 244)
exceeds_maxAtLimit(size, max_size) == max_size.given /\ size >= max_size.v

exceeds_max(size, max_size) == max_size.given /\ size > max_size.v

\* should_download_file  (download.py 215-248), in the order of the code.
should_download_file(key, size, files, include_patterns, exclude_patterns, max_size) ==
    IF is_complete(files, key) THEN FALSE
    ELSE LET filename == basename(key)
         IN  IF truthy(include_patterns) /\ ~any_match(filename, include_patterns)
             THEN FALSE
             ELSE IF truthy(exclude_patterns) /\ any_match(filename, exclude_patterns)
             THEN FALSE
             ELSE IF exceeds_max(size, max_size)
             THEN FALSE
             ELSE TRUE

\* The tracker of the call: the key absent, recorded complete, or recorded
\* with completed = false.
FilterTrackers(key) ==
    {<<>>,
     [p \in {key} |-> FileStatus(key, 10, "a")],
     [p \in {key} |-> [FileStatus(key, 10, "a") EXCEPT !.completed = FALSE]]}

PatternArgs == {NoPatterns} \cup {Some(S) : S \in SUBSET Patterns}

SizeArgs == {NoSize} \cup {Some(n) : n \in 0..MaxSize}

InitFilter ==
    /\ credentials = NoCreds
    /\ client = 0
    /\ refresh_count = 0
    /\ lock = 0
    /\ now = 0
    /\ fetches = 0
    /\ ncalls = 0
    /\ pc = [t \in Threads |-> "idle"]
    /\ op = [t \in Threads |-> "none"]
    /\ result = [t \in Threads |-> 0]
    /\ credsAtReturn = [t \in Threads |-> 0]
    /\ entry = NoEntry
    /\ path = [t \in Threads |-> "none"]
    /\ mode = "plain"
    /\ hasManager = FALSE
    /\ max_retries = 0
    /\ base_delay = 1
    /\ max_delay = 1
    /\ script = <<>>
    /\ rpc = "off"
    /\ attempt = 0
    /\ calls = 0
    /\ callClient = <<>>
    /\ rclient = 0
    /\ credential_refreshed = FALSE
    /\ refreshCalls = 0
    /\ sleeps = <<>>
    /\ last_exception = 0
    /\ outcome = [kind |-> "none", inv |-> 0]
    /\ tfiles = <<>>
    /\ disk = NoDocument
    /\ tlock = [owner |-> 0, count |-> 0]
    /\ tpc = [w \in TWorkers |-> "idle"]
    /\ targ = [w \in TWorkers |-> NoArg]
    /\ tdata = [w \in TWorkers |-> {}]
    /\ marked = [w \in TWorkers |-> {}]
    /\ crashed = FALSE
    /\ fresh = NotConstructed
    /\ fs = [p \in Paths |-> Absent]
    /\ dl = NoDownload
    /\ omode = "sequential"
    /\ oworkers = 1
    /\ behaviour = [o \in Objects |-> "unknown"]
    /\ mpc = "idle"
    /\ mcur = 0
    /\ idx = 0
    /\ queue = <<>>
    /\ wpc = [w \in PWorkers |-> "idle"]
    /\ wobj = [w \in PWorkers |-> 0]
    /\ futures = [o \in Objects |-> "none"]
    /\ olocks = NoLocks
    /\ downloaded = {}
    /\ failed = 0
    /\ failedKeys = {}
    /\ ofiles = {}
    /\ checkpointed = {}
    /\ agg = [completed |-> 0, failed |-> 0]
    /\ interrupted = FALSE
    /\ pendingAtInterrupt = {}
    /\ exit_code = NotExited
    /\ prev = NoPrev
    /\ \E k \in FilterKeys, n \in 0..MaxSize, inc \in PatternArgs,
          exc \in PatternArgs, mx \in SizeArgs :
           \E f \in FilterTrackers(k) :
               input = [fn |-> "should_download_file", key |-> k, size |-> n,
                        files |-> f, include_patterns |-> inc,
                        exclude_patterns |-> exc, max_size |-> mx]
    /\ output = NoOutput
    /\ reader = NoReader
    /\ run = NoRun

\* One call of should_download_file on the drawn arguments.
ShouldDownloadCall ==
    /\ input.fn = "should_download_file"
    /\ output = NoOutput
    /\ output' = [kind |-> "returned",
                  value |-> should_download_file(input.key, input.size, input.files,
                                                 input.include_patterns,
                                                 input.exclude_patterns,
                                                 input.max_size)]
    /\ UNCHANGED <<input, readerVars, runVars>>
    /\ UNCHANGED <<authVars, retryVars, trackerVars, downloadVars, orchVars>>

NextFilter == ShouldDownloadCall

SpecFilter == InitFilter /\ [][NextFilter]_vars

\* The four conditions, each on its own.
NotComplete == ~(input.key \in DOMAIN input.files /\ input.files[input.key].completed)

IncludeOK ==
    \/ ~input.include_patterns.given
    \/ input.include_patterns.v = {}
    \/ \E p \in input.include_patterns.v : fnmatch(basename(input.key), p)

ExcludeOK ==
    \/ ~input.exclude_patterns.given
    \/ \A p \in input.exclude_patterns.v : ~fnmatch(basename(input.key), p)

SizeOK == ~input.max_size.given \/ input.size <= input.max_size.v

\* C21: should_download_file returns true exactly when the key is not
\* recorded complete, no include pattern is configured or the base filename
\* matches one, the base filename matches no exclude pattern, and max_size is
\* unset or size <= max_size; being a conjunction of the four conditions, the
\* result does not depend on the order in which they are evaluated.
C21_FilterDecision ==
    output.kind = "returned" =>
        /\ output.value = (NotComplete /\ IncludeOK /\ ExcludeOK /\ SizeOK)
        /\ output.value = (SizeOK /\ ExcludeOK /\ IncludeOK /\ NotComplete)

\* C21 witness: a key in a directory, not complete, whose base filename
\* matches an include pattern and no exclude pattern, of exactly the maximum
\* size, is accepted.
C21_Witness ==
    /\ output = [kind |-> "returned", value |-> TRUE]
    /\ input.key = <<"d", "/", "a">>
    /\ input.include_patterns = Some({<<"a">>})
    /\ input.exclude_patterns = Some({<<"d", "*">>})
    /\ input.max_size = Some(input.size)

----------------------------------------------------------------------------
(* Successive runs of main on one output directory (__main__.py) *)

\* Number of runs of the program on the directory.
MaxRuns == 3

\* The objects listed under the prefix, the same in every run.
RunKeys == FilterKeys

\* mark_complete lines 91-97 on a map: self.files[path] = FileStatus(...).
put(files, k, sz, ck) ==
    [p \in DOMAIN files \cup {k} |-> IF p = k THEN FileStatus(k, sz, ck) ELSE files[p]]

\* save (progress.py 75-87) when it runs to its end: the document of the map.
document(files) ==
    [valid |-> TRUE, present |-> TRUE, files |-> {to_dict(files[p]) : p \in DOMAIN files}]

\* _build_download_list  (__main__.py 183-195) with no filter configured.
to_download(objs, files) ==
    {k \in objs : should_download_file(k, 1, files, NoPatterns, NoPatterns, NoSize)}

InitResume ==
    /\ credentials = NoCreds
    /\ client = 0
    /\ refresh_count = 0
    /\ lock = 0
    /\ now = 0
    /\ fetches = 0
    /\ ncalls = 0
    /\ pc = [t \in Threads |-> "idle"]
    /\ op = [t \in Threads |-> "none"]
    /\ result = [t \in Threads |-> 0]
    /\ credsAtReturn = [t \in Threads |-> 0]
    /\ entry = NoEntry
    /\ path = [t \in Threads |-> "none"]
    /\ mode = "plain"
    /\ hasManager = FALSE
    /\ max_retries = 0
    /\ base_delay = 1
    /\ max_delay = 1
    /\ script = <<>>
    /\ rpc = "off"
    /\ attempt = 0
    /\ calls = 0
    /\ callClient = <<>>
    /\ rclient = 0
    /\ credential_refreshed = FALSE
    /\ refreshCalls = 0
    /\ sleeps = <<>>
    /\ last_exception = 0
    /\ outcome = [kind |-> "none", inv |-> 0]
    /\ tfiles = <<>>
    /\ disk = NoDocument
    /\ tlock = [owner |-> 0, count |-> 0]
    /\ tpc = [w \in TWorkers |-> "idle"]
    /\ targ = [w \in TWorkers |-> NoArg]
    /\ tdata = [w \in TWorkers |-> {}]
    /\ marked = [w \in TWorkers |-> {}]
    /\ crashed = FALSE
    /\ fresh = NotConstructed
    /\ fs = [p \in Paths |-> Absent]
    /\ dl = NoDownload
    /\ omode = "sequential"
    /\ oworkers = 1
    /\ behaviour = [o \in Objects |-> "unknown"]
    /\ mpc = "idle"
    /\ mcur = 0
    /\ idx = 0
    /\ queue = <<>>
    /\ wpc = [w \in PWorkers |-> "idle"]
    /\ wobj = [w \in PWorkers |-> 0]
    /\ futures = [o \in Objects |-> "none"]
    /\ olocks = NoLocks
    /\ downloaded = {}
    /\ failed = 0
    /\ failedKeys = {}
    /\ ofiles = {}
    /\ checkpointed = {}
    /\ agg = [completed |-> 0, failed |-> 0]
    /\ interrupted = FALSE
    /\ pendingAtInterrupt = {}
    /\ exit_code = NotExited
    /\ prev = NoPrev
    /\ input = NoInput
    /\ output = NoOutput
    /\ reader = NoReader
    /\ run = NoRun

\* main up to the download phase (__main__.py 375-391): the tracker is
\* constructed and loads the document, is cleared with --fresh, and the
\* download list is built.  A document that does not parse ends the run.
RunStart(fr) ==
    /\ run.pc \in {"none", "ended"}
    /\ run.n < MaxRuns
    /\ LET ld == _load(disk)
           files == IF fr THEN <<>> ELSE ld.files
           kept == IF fr THEN {} ELSE run.marked
       IN  IF ~ld.ok
           THEN /\ run' = [run EXCEPT !.pc = "load_failed", !.n = run.n + 1,
                                      !.fresh = fr, !.loaded = {}, !.before = run.marked,
                                      !.list = {}, !.issued = {}]
                /\ UNCHANGED <<tfiles, disk>>
           ELSE /\ tfiles' = files
                /\ disk' = IF fr THEN NoDocument ELSE disk
                /\ run' = [pc |-> "downloading", n |-> run.n + 1, fresh |-> fr,
                           loaded |-> get_completed_files(ld.files),
                           before |-> kept,
                           list |-> to_download(RunKeys, files),
                           issued |-> {}, marked |-> kept]
    /\ UNCHANGED <<tlock, tpc, targ, tdata, marked, crashed, fresh>>
    /\ UNCHANGED <<authVars, retryVars, downloadVars, orchVars, pureVars, readerVars>>

\* One iteration of the download loop that succeeds: the object is
\* downloaded and tracker.mark_complete records and saves it.
RunDownloadOk(k) ==
    /\ run.pc = "downloading"
    /\ k \in run.list \ run.issued
    /\ tfiles' = put(tfiles, k, 10, "a")
    /\ disk' = document(tfiles')
    /\ run' = [run EXCEPT !.issued = run.issued \cup {k},
                          !.marked = run.marked \cup {k}]
    /\ UNCHANGED <<tlock, tpc, targ, tdata, marked, crashed, fresh>>
    /\ UNCHANGED <<authVars, retryVars, downloadVars, orchVars, pureVars, readerVars>>

\* One iteration whose download fails: counted, nothing is recorded.
RunDownloadFails(k) ==
    /\ run.pc = "downloading"
    /\ k \in run.list \ run.issued
    /\ run' = [run EXCEPT !.issued = run.issued \cup {k}]
    /\ UNCHANGED trackerVars
    /\ UNCHANGED <<authVars, retryVars, downloadVars, orchVars, pureVars, readerVars>>

\* The process is killed while save() is writing the document for k.
RunKilledInSave(k) ==
    /\ run.pc = "downloading"
    /\ k \in run.list \ run.issued
    /\ tfiles' = put(tfiles, k, 10, "a")
    /\ disk' = [valid |-> FALSE, present |-> TRUE, files |-> {}]
    /\ run' = [run EXCEPT !.pc = "ended", !.issued = run.issued \cup {k}]
    /\ UNCHANGED <<tlock, tpc, targ, tdata, marked, crashed, fresh>>
    /\ UNCHANGED <<authVars, retryVars, downloadVars, orchVars, pureVars, readerVars>>

\* The run ends: the list is exhausted, or the user cancels or the process
\* is killed between two downloads.
RunEnd ==
    /\ run.pc = "downloading"
    /\ run' = [run EXCEPT !.pc = "ended"]
    /\ UNCHANGED trackerVars
    /\ UNCHANGED <<authVars, retryVars, downloadVars, orchVars, pureVars, readerVars>>

\* After a run that could not load the document the user deletes it.
DeleteCheckpoint ==
    /\ run.pc = "load_failed"
    /\ disk' = NoDocument
    /\ run' = [run EXCEPT !.pc = "ended", !.marked = {}]
    /\ UNCHANGED <<tfiles, tlock, tpc, targ, tdata, marked, crashed, fresh>>
    /\ UNCHANGED <<authVars, retryVars, downloadVars, orchVars, pureVars, readerVars>>

NextResume ==
    \/ \E fr \in BOOLEAN : RunStart(fr)
    \/ \E k \in RunKeys : RunDownloadOk(k)
    \/ \E k \in RunKeys : RunDownloadFails(k)
    \/ \E k \in RunKeys : RunKilledInSave(k)
    \/ RunEnd
    \/ DeleteCheckpoint

SpecResume == InitResume /\ [][NextResume]_vars

\* C22: a key recorded complete in the checkpoint when the run starts, the
\* checkpoint not being cleared, is never placed in the run's download list;
\* only listed objects are downloaded; and across the runs on the directory
\* no object is downloaded again that was marked complete in an earlier run
\* since the checkpoint was last cleared.
C22_Resume ==
    /\ ~run.fresh => run.list \cap run.loaded = {}
    /\ run.issued \subseteq run.list
    /\ run.issued \cap run.before = {}

\* C22 witness: a later run without --fresh finds keys recorded complete,
\* lists only the others and downloads one of them.
C22_Witness ==
    /\ run.n >= 2
    /\ ~run.fresh
    /\ run.loaded # {}
    /\ run.list = RunKeys \ run.loaded
    /\ run.issued # {}

----------------------------------------------------------------------------
(* safe_join (safe_path.py) *)

\* Longest untrusted path, in segments.
MaxSegments == 5

\* The segments an untrusted path is made of: strings as sequences of
\* characters; the path is the segments joined by "/".
Segments == {<<>>, <<"a">>, <<"o">>, <<".">>, <<".", ".">>, <<".", "a">>, <<" ">>}

\* The resolved base directory /o, as the list of its components.
BaseDir == <<<<"o">>>>

RECURSIVE join(_)
join(segs) ==
    IF Len(segs) = 1 THEN segs[1] ELSE segs[1] \o <<"/">> \o join(Tail(segs))

\* untrusted_path.strip()  (safe_path.py 46): leading and trailing blanks removed.
RECURSIVE lstrip(_)
lstrip(str) == IF str # <<>> /\ Head(str) = " " THEN lstrip(Tail(str)) ELSE str

RECURSIVE rstrip(_)
rstrip(str) ==
    IF str # <<>> /\ str[Len(str)] = " " THEN rstrip(SubSeq(str, 1, Len(str) - 1)) ELSE str

strip(str) == rstrip(lstrip(str))

\* os.path.isabs  (safe_path.py 49)
isabs(str) == str # <<>> /\ Head(str) = "/"

\* str.startswith(".")  (safe_path.py 52)
startswith_dot(str) == str # <<>> /\ Head(str) = "."

\* str.split("/"): the components of a path string.
RECURSIVE split(_, _)
split(str, cur) ==
    IF str = <<>> THEN <<cur>>
    ELSE IF Head(str) = "/" THEN <<cur>> \o split(Tail(str), <<>>)
    ELSE split(Tail(str), Append(cur, Head(str)))

\* Path.resolve()  (safe_path.py 44, 56) on a directory without symbolic
\* links: empty and "." components are dropped, ".." removes the component
\* before it and stays at the root.
RECURSIVE resolve(_, _)
resolve(stack, comps) ==
    IF comps = <<>> THEN stack
    ELSE LET c == Head(comps)
         IN  IF c = <<>> \/ c = <<".">> THEN resolve(stack, Tail(comps))
             ELSE IF c = <<".", ".">>
                  THEN resolve(IF stack = <<>> THEN <<>>
                               ELSE SubSeq(stack, 1, Len(stack) - 1), Tail(comps))
                  ELSE resolve(Append(stack, c), Tail(comps))

\* joined.relative_to(base)  (safe_path.py 61): base is a prefix of joined.
relative_toAlways(joined, base) == TRUE

relative_to(joined, base) ==
    /\ Len(joined) >= Len(base)
    /\ SubSeq(joined, 1, Len(base)) = base

\* safe_join  (safe_path.py 18-67), named apart from the path check of the
\* download phase.
safe_join_path(base, untrusted_path) ==
    IF untrusted_path = <<>> \/ strip(untrusted_path) = <<>>
    THEN [kind |-> "PathTraversalError", reason |-> "empty path"]
    ELSE IF isabs(untrusted_path)
    THEN [kind |-> "PathTraversalError", reason |-> "absolute path not allowed"]
    ELSE IF startswith_dot(untrusted_path)
    THEN [kind |-> "PathTraversalError", reason |-> "path cannot start with '.'"]
    ELSE LET joined == resolve(base, split(untrusted_path, <<>>))
         IN  IF ~relative_to(joined, base)
             THEN [kind |-> "PathTraversalError", reason |-> "path escapes base directory"]
             ELSE [kind |-> "returned", value |-> joined]

RECURSIVE SeqsUpTo(_, _)
SeqsUpTo(S, n) ==
    IF n = 0 THEN {<<>>}
    ELSE LET shorter == SeqsUpTo(S, n - 1)
         IN  shorter \cup {Append(q, x) : q \in shorter, x \in S}

InitSafeJoin ==
    /\ credentials = NoCreds
    /\ client = 0
    /\ refresh_count = 0
    /\ lock = 0
    /\ now = 0
    /\ fetches = 0
    /\ ncalls = 0
    /\ pc = [t \in Threads |-> "idle"]
    /\ op = [t \in Threads |-> "none"]
    /\ result = [t \in Threads |-> 0]
    /\ credsAtReturn = [t \in Threads |-> 0]
    /\ entry = NoEntry
    /\ path = [t \in Threads |-> "none"]
    /\ mode = "plain"
    /\ hasManager = FALSE
    /\ max_retries = 0
    /\ base_delay = 1
    /\ max_delay = 1
    /\ script = <<>>
    /\ rpc = "off"
    /\ attempt = 0
    /\ calls = 0
    /\ callClient = <<>>
    /\ rclient = 0
    /\ credential_refreshed = FALSE
    /\ refreshCalls = 0
    /\ sleeps = <<>>
    /\ last_exception = 0
    /\ outcome = [kind |-> "none", inv |-> 0]
    /\ tfiles = <<>>
    /\ disk = NoDocument
    /\ tlock = [owner |-> 0, count |-> 0]
    /\ tpc = [w \in TWorkers |-> "idle"]
    /\ targ = [w \in TWorkers |-> NoArg]
    /\ tdata = [w \in TWorkers |-> {}]
    /\ marked = [w \in TWorkers |-> {}]
    /\ crashed = FALSE
    /\ fresh = NotConstructed
    /\ fs = [p \in Paths |-> Absent]
    /\ dl = NoDownload
    /\ omode = "sequential"
    /\ oworkers = 1
    /\ behaviour = [o \in Objects |-> "unknown"]
    /\ mpc = "idle"
    /\ mcur = 0
    /\ idx = 0
    /\ queue = <<>>
    /\ wpc = [w \in PWorkers |-> "idle"]
    /\ wobj = [w \in PWorkers |-> 0]
    /\ futures = [o \in Objects |-> "none"]
    /\ olocks = NoLocks
    /\ downloaded = {}
    /\ failed = 0
    /\ failedKeys = {}
    /\ ofiles = {}
    /\ checkpointed = {}
    /\ agg = [completed |-> 0, failed |-> 0]
    /\ interrupted = FALSE
    /\ pendingAtInterrupt = {}
    /\ exit_code = NotExited
    /\ prev = NoPrev
    /\ \E segs \in SeqsUpTo(Segments, MaxSegments) \ {<<>>} :
           input = [fn |-> "safe_join", base |-> BaseDir, untrusted_path |-> join(segs)]
    /\ output = NoOutput
    /\ reader = NoReader
    /\ run = NoRun

\* One call of safe_join on the drawn path.
SafeJoinCall ==
    /\ input.fn = "safe_join"
    /\ output = NoOutput
    /\ output' = safe_join_path(input.base, input.untrusted_path)
    /\ UNCHANGED <<input, readerVars, runVars>>
    /\ UNCHANGED <<authVars, retryVars, trackerVars, downloadVars, orchVars>>

NextSafeJoin == SafeJoinCall

SpecSafeJoin == InitSafeJoin /\ [][NextSafeJoin]_vars

\* The path string has a character that is not a blank.
NotBlank == \E i \in 1..Len(input.untrusted_path) : input.untrusted_path[i] # " "

\* base/p with "." and ".." collapsed.
Normalized == resolve(input.base, split(input.untrusted_path, <<>>))

InsideBase ==
    /\ Len(Normalized) >= Len(input.base)
    /\ \A i \in 1..Len(input.base) : Normalized[i] = input.base[i]

\* C24: safe_join(base, p) succeeds exactly when p is non-empty and not
\* whitespace-only, is not absolute, does not begin with ".", and base/p with
\* "." and ".." collapsed lies inside base; on success it returns that
\* normalized path, which is inside base; otherwise it raises
\* PathTraversalError.
C24_SafeJoin ==
    output # NoOutput =>
        LET accepted == /\ NotBlank
                        /\ input.untrusted_path[1] # "/"
                        /\ input.untrusted_path[1] # "."
                        /\ InsideBase
        IN  /\ output.kind \in {"returned", "PathTraversalError"}
            /\ (output.kind = "returned") = accepted
            /\ output.kind = "returned" =>
                   /\ output.value = Normalized
                   /\ SubSeq(output.value, 1, Len(input.base)) = input.base

\* C24 witness: a/o/../a/a is accepted and returned as /o/a/a/a.
C24_Witness ==
    /\ input.untrusted_path = <<"a", "/", "o", "/", ".", ".", "/", "a", "/", "a">>
    /\ output = [kind |-> "returned", value |-> <<<<"o">>, <<"a">>, <<"a">>, <<"a">>>>]

----------------------------------------------------------------------------
(* verify_checksum (checksum.py) *)

\* Longest ETag string, in characters.
MaxEtagLen == 4

\* Characters of an ETag as S3 sends it: hexadecimal digits (x, y), the double
\* quote and the "-" of a multipart ETag.
EtagChars == {"x", "y", "\"", "-"}

\* The files verify_checksum is called on, by content.
FileContents == {"c1", "c2", "c3"}

\* compute_md5  (checksum.py 19-35): the hexadecimal digest of the content.
compute_md5(content) ==
    CASE content = "c1" -> <<"x">>
      [] content = "c2" -> <<"x", "y">>
      [] content = "c3" -> <<"y", "x">>

\* expected_etag.strip('"')  (checksum.py 55): every leading and trailing
\* double quote is removed.
strip_quotesNone(str) == str

RECURSIVE strip_quotes(_)
strip_quotes(str) ==
    IF str # <<>> /\ Head(str) = "\"" THEN strip_quotes(Tail(str))
    ELSE IF str # <<>> /\ str[Len(str)] = "\""
         THEN strip_quotes(SubSeq(str, 1, Len(str) - 1))
         ELSE str

\* `"-" in expected`  (checksum.py 59)
has_dash(str) == \E i \in 1..Len(str) : str[i] = "-"

\* verify_checksum  (checksum.py 38-68) on the string of the ETag, named
\* apart from the verification step of the download.
verify_checksum_etag(file, expected_etag) ==
    LET expected == strip_quotes(expected_etag)
    IN  IF has_dash(expected)
        THEN [kind |-> "returned", compared |-> FALSE]
        ELSE LET actual == compute_md5(file.content)
             IN  IF actual # expected
                 THEN [kind |-> "ChecksumMismatch", path |-> file.path,
                       expected |-> expected, actual |-> actual]
                 ELSE [kind |-> "returned", compared |-> TRUE]

InitChecksum ==
    /\ credentials = NoCreds
    /\ client = 0
    /\ refresh_count = 0
    /\ lock = 0
    /\ now = 0
    /\ fetches = 0
    /\ ncalls = 0
    /\ pc = [t \in Threads |-> "idle"]
    /\ op = [t \in Threads |-> "none"]
    /\ result = [t \in Threads |-> 0]
    /\ credsAtReturn = [t \in Threads |-> 0]
    /\ entry = NoEntry
    /\ path = [t \in Threads |-> "none"]
    /\ mode = "plain"
    /\ hasManager = FALSE
    /\ max_retries = 0
    /\ base_delay = 1
    /\ max_delay = 1
    /\ script = <<>>
    /\ rpc = "off"
    /\ attempt = 0
    /\ calls = 0
    /\ callClient = <<>>
    /\ rclient = 0
    /\ credential_refreshed = FALSE
    /\ refreshCalls = 0
    /\ sleeps = <<>>
    /\ last_exception = 0
    /\ outcome = [kind |-> "none", inv |-> 0]
    /\ tfiles = <<>>
    /\ disk = NoDocument
    /\ tlock = [owner |-> 0, count |-> 0]
    /\ tpc = [w \in TWorkers |-> "idle"]
    /\ targ = [w \in TWorkers |-> NoArg]
    /\ tdata = [w \in TWorkers |-> {}]
    /\ marked = [w \in TWorkers |-> {}]
    /\ crashed = FALSE
    /\ fresh = NotConstructed
    /\ fs = [p \in Paths |-> Absent]
    /\ dl = NoDownload
    /\ omode = "sequential"
    /\ oworkers = 1
    /\ behaviour = [o \in Objects |-> "unknown"]
    /\ mpc = "idle"
    /\ mcur = 0
    /\ idx = 0
    /\ queue = <<>>
    /\ wpc = [w \in PWorkers |-> "idle"]
    /\ wobj = [w \in PWorkers |-> 0]
    /\ futures = [o \in Objects |-> "none"]
    /\ olocks = NoLocks
    /\ downloaded = {}
    /\ failed = 0
    /\ failedKeys = {}
    /\ ofiles = {}
    /\ checkpointed = {}
    /\ agg = [completed |-> 0, failed |-> 0]
    /\ interrupted = FALSE
    /\ pendingAtInterrupt = {}
    /\ exit_code = NotExited
    /\ prev = NoPrev
    /\ \E c \in FileContents, e \in SeqsUpTo(EtagChars, MaxEtagLen) :
           input = [fn |-> "verify_checksum", file |-> [path |-> "f", content |-> c],
                    expected_etag |-> e]
    /\ output = NoOutput
    /\ reader = NoReader
    /\ run = NoRun

\* One call of verify_checksum on the drawn file and ETag.
VerifyChecksumCall ==
    /\ input.fn = "verify_checksum"
    /\ output = NoOutput
    /\ output' = verify_checksum_etag(input.file, input.expected_etag)
    /\ UNCHANGED <<input, readerVars, runVars>>
    /\ UNCHANGED <<authVars, retryVars, trackerVars, downloadVars, orchVars>>

NextChecksum == VerifyChecksumCall

SpecChecksum == InitChecksum /\ [][NextChecksum]_vars

\* The ETag without its surrounding double quotes: the part left between a
\* run of quotes at the start and a run of quotes at the end, itself neither
\* starting nor ending with a quote.
Unquoted ==
    LET e == input.expected_etag
        n == Len(e)
        cut == CHOOSE c \in (0..n) \X (0..n) :
                   /\ c[1] <= c[2]
                   /\ \A i \in 1..c[1] : e[i] = "\""
                   /\ \A i \in (c[2] + 1)..n : e[i] = "\""
                   /\ c[1] < c[2] => e[c[1] + 1] # "\"" /\ e[c[2]] # "\""
    IN  SubSeq(e, cut[1] + 1, cut[2])

\* C25: verify_checksum strips the surrounding double quotes of the ETag;
\* when the stripped value contains "-" it returns without comparing;
\* otherwise it returns exactly when the digest of the file equals the
\* stripped value and else raises ChecksumMismatch with the path, the
\* stripped expected value and the actual digest.
C25_VerifyChecksum ==
    output # NoOutput =>
        IF \E i \in 1..Len(Unquoted) : Unquoted[i] = "-"
        THEN output = [kind |-> "returned", compared |-> FALSE]
        ELSE IF compute_md5(input.file.content) = Unquoted
             THEN output = [kind |-> "returned", compared |-> TRUE]
             ELSE output = [kind |-> "ChecksumMismatch", path |-> input.file.path,
                            expected |-> Unquoted,
                            actual |-> compute_md5(input.file.content)]

\* C25 witness: the quoted ETag "xy" of a file with digest xy is accepted.
C25_Witness ==
    /\ input.expected_etag = <<"\"", "x", "y", "\"">>
    /\ input.file.content = "c2"
    /\ output = [kind |-> "returned", compared |-> TRUE]

----------------------------------------------------------------------------
(* AWSCredentials.is_expiring_soon / seconds_until_expiry (auth.py) *)

\* Longest credential lifetime, largest --refresh-interval and latest age.
MaxLifetime == 3
MaxInterval == 4
MaxAge == 5

\* CredentialManager.__init__ line 130: the buffer the manager passes to
\* is_expiring_soon.
_refresh_buffer(credential_lifetime_seconds, refresh_interval_seconds) ==
    credential_lifetime_seconds - refresh_interval_seconds

\* AWSCredentials.is_expiring_soon(buffer_seconds)  (auth.py 63-68) at a
\* given age = time.time() - fetched_at.
is_expiring_soon_at(lifetime_seconds, buffer_seconds, age) ==
    age >= (lifetime_seconds - buffer_seconds)

\* AWSCredentials.seconds_until_expiry  (auth.py 70-73)
seconds_until_expiry(lifetime_seconds, age) ==
    IF lifetime_seconds - age > 0 THEN lifetime_seconds - age ELSE 0

expiry(lifetime_seconds, buffer_seconds, age, before) ==
    [kind |-> "returned",
     expiring |-> is_expiring_soon_at(lifetime_seconds, buffer_seconds, age),
     remaining |-> seconds_until_expiry(lifetime_seconds, age),
     before |-> before]

InitExpiry ==
    /\ credentials = NoCreds
    /\ client = 0
    /\ refresh_count = 0
    /\ lock = 0
    /\ now = 0
    /\ fetches = 0
    /\ ncalls = 0
    /\ pc = [t \in Threads |-> "idle"]
    /\ op = [t \in Threads |-> "none"]
    /\ result = [t \in Threads |-> 0]
    /\ credsAtReturn = [t \in Threads |-> 0]
    /\ entry = NoEntry
    /\ path = [t \in Threads |-> "none"]
    /\ mode = "plain"
    /\ hasManager = FALSE
    /\ max_retries = 0
    /\ base_delay = 1
    /\ max_delay = 1
    /\ script = <<>>
    /\ rpc = "off"
    /\ attempt = 0
    /\ calls = 0
    /\ callClient = <<>>
    /\ rclient = 0
    /\ credential_refreshed = FALSE
    /\ refreshCalls = 0
    /\ sleeps = <<>>
    /\ last_exception = 0
    /\ outcome = [kind |-> "none", inv |-> 0]
    /\ tfiles = <<>>
    /\ disk = NoDocument
    /\ tlock = [owner |-> 0, count |-> 0]
    /\ tpc = [w \in TWorkers |-> "idle"]
    /\ targ = [w \in TWorkers |-> NoArg]
    /\ tdata = [w \in TWorkers |-> {}]
    /\ marked = [w \in TWorkers |-> {}]
    /\ crashed = FALSE
    /\ fresh = NotConstructed
    /\ fs = [p \in Paths |-> Absent]
    /\ dl = NoDownload
    /\ omode = "sequential"
    /\ oworkers = 1
    /\ behaviour = [o \in Objects |-> "unknown"]
    /\ mpc = "idle"
    /\ mcur = 0
    /\ idx = 0
    /\ queue = <<>>
    /\ wpc = [w \in PWorkers |-> "idle"]
    /\ wobj = [w \in PWorkers |-> 0]
    /\ futures = [o \in Objects |-> "none"]
    /\ olocks = NoLocks
    /\ downloaded = {}
    /\ failed = 0
    /\ failedKeys = {}
    /\ ofiles = {}
    /\ checkpointed = {}
    /\ agg = [completed |-> 0, failed |-> 0]
    /\ interrupted = FALSE
    /\ pendingAtInterrupt = {}
    /\ exit_code = NotExited
    /\ prev = NoPrev
    /\ \E l \in 1..MaxLifetime, r \in 0..MaxInterval :
           input = [fn |-> "expiry", lifetime |-> l, refresh_interval |-> r,
                    buffer |-> _refresh_buffer(l, r), age |-> 0]
    /\ output = NoOutput
    /\ reader = NoReader
    /\ run = NoRun

\* Both methods are called on the credentials, first right after the fetch.
ExpiryQuery ==
    /\ input.fn = "expiry"
    /\ output = NoOutput
    /\ output' = expiry(input.lifetime, input.buffer, input.age,
                        seconds_until_expiry(input.lifetime, input.age))
    /\ UNCHANGED <<input, readerVars, runVars>>
    /\ UNCHANGED <<authVars, retryVars, trackerVars, downloadVars, orchVars>>

\* Time advances by some seconds and both methods are called again.
ExpiryLater(d) ==
    /\ input.fn = "expiry"
    /\ output # NoOutput
    /\ input.age + d <= MaxAge
    /\ input' = [input EXCEPT !.age = input.age + d]
    /\ output' = expiry(input.lifetime, input.buffer, input.age + d, output.remaining)
    /\ UNCHANGED <<readerVars, runVars>>
    /\ UNCHANGED <<authVars, retryVars, trackerVars, downloadVars, orchVars>>

NextExpiry ==
    \/ ExpiryQuery
    \/ \E d \in 1..MaxAge : ExpiryLater(d)

SpecExpiry == InitExpiry /\ [][NextExpiry]_vars

\* C26: for every credential lifetime and every configured buffer,
\* is_expiring_soon(buffer) is false at age 0 and true exactly when
\* age >= lifetime - buffer; seconds_until_expiry is max(0, lifetime - age),
\* never grows as time advances and is never negative.
C26_Expiry ==
    output # NoOutput =>
        /\ input.age = 0 => ~output.expiring
        /\ output.expiring = (input.age >= input.lifetime - input.buffer)
        /\ output.remaining =
               (IF input.lifetime > input.age THEN input.lifetime - input.age ELSE 0)
        /\ output.remaining <= output.before
        /\ output.remaining >= 0

----------------------------------------------------------------------------
(* ProgressTracker: clear, failing saves and the read operations (progress.py) *)

\* The thread that marks and clears, and the thread that reads.
Writer == 1
ReaderThread == NumWorkers + 1

\* clear line 118-119: `if self.progress_file.exists(): self.progress_file.unlink()`.
clear_unlinkKeeps(doc) == doc

clear_unlink(doc) == IF doc.present THEN NoDocument ELSE doc

\* clear lines 116-117: `with self._lock: self.files.clear()`.
ClearMap(w) ==
    /\ tpc[w] = "idle"
    /\ TLockAvailable(w)
    /\ tlock' = [owner |-> w, count |-> tlock.count + 1]
    /\ tfiles' = <<>>
    /\ tpc' = [tpc EXCEPT ![w] = "cl_unlink"]
    /\ UNCHANGED <<disk, targ, tdata, marked, crashed, fresh>>
    /\ UNCHANGED nonTrackerVars

\* clear lines 118-119 and the end of the with block: the document is
\* deleted if there is one, the lock is released, clear returns.
ClearUnlink(w) ==
    /\ tpc[w] = "cl_unlink"
    /\ disk' = clear_unlink(disk)
    /\ tlock' = TRelease
    /\ tpc' = [tpc EXCEPT ![w] = "idle"]
    /\ UNCHANGED <<tfiles, targ, tdata, marked, crashed, fresh>>
    /\ UNCHANGED nonTrackerVars

\* save lines 86-87 raise: open() fails (the document is left as it was) or
\* the write is cut short by an I/O error or a KeyboardInterrupt (the document
\* stays truncated).  The exception leaves both with blocks, which release
\* the lock, and mark_complete raises to its caller.
SaveRaises(w) ==
    /\ tpc[w] \in {"sv_open", "sv_dump"}
    /\ ~crashed
    /\ tlock' = [owner |-> 0, count |-> 0]
    /\ tpc' = [tpc EXCEPT ![w] = "idle"]
    /\ targ' = [targ EXCEPT ![w] = NoArg]
    /\ tdata' = [tdata EXCEPT ![w] = {}]
    /\ UNCHANGED <<tfiles, disk, marked, crashed, fresh>>
    /\ UNCHANGED nonTrackerVars

\* is_complete (progress.py 100-103): the lookup is made with the lock held.
ReadIsComplete(p) ==
    /\ reader.pc = "idle"
    /\ TLockAvailable(ReaderThread)
    /\ reader' = [pc |-> "done", op |-> "is_complete", seen |-> {}, size |-> 0,
                  result |-> IF is_complete(tfiles, p) THEN "true" ELSE "false"]
    /\ UNCHANGED <<trackerVars, authVars, retryVars, downloadVars, orchVars,
                   pureVars, runVars>>

\* get_completed_files (105-106) and get_stats (108-113) start iterating over
\* self.files without taking the lock; the iterator notes the size of the map.
ReadIterStart(o) ==
    /\ reader.pc = "idle"
    /\ reader' = [pc |-> "iter", op |-> o, seen |-> {},
                  size |-> Cardinality(DOMAIN tfiles), result |-> "none"]
    /\ UNCHANGED <<trackerVars, authVars, retryVars, downloadVars, orchVars,
                   pureVars, runVars>>

\* The next step of the iteration: a dict iterator raises RuntimeError
\* ("dictionary changed size during iteration") when the size differs from
\* the one it noted, yields the next entry, or is exhausted.
ReadIterNext ==
    /\ reader.pc = "iter"
    /\ IF Cardinality(DOMAIN tfiles) # reader.size
       THEN reader' = [reader EXCEPT !.pc = "done", !.result = "RuntimeError"]
       ELSE IF DOMAIN tfiles \subseteq reader.seen
            THEN reader' = [reader EXCEPT !.pc = "done", !.result = "returned"]
            ELSE reader' = [reader EXCEPT !.seen =
                               reader.seen \cup {CHOOSE p \in DOMAIN tfiles \ reader.seen : TRUE}]
    /\ UNCHANGED <<trackerVars, authVars, retryVars, downloadVars, orchVars,
                   pureVars, runVars>>

\* The read has returned or raised; the thread may read again.
ReadReturn ==
    /\ reader.pc = "done"
    /\ reader' = NoReader
    /\ UNCHANGED <<trackerVars, authVars, retryVars, downloadVars, orchVars,
                   pureVars, runVars>>

NextTrackerOps ==
    \/ MarkCall(Writer)
    \/ MarkAcquire(Writer)
    \/ MarkPut(Writer)
    \/ SaveBuild(Writer)
    \/ SaveOpen(Writer)
    \/ SaveDump(Writer)
    \/ SaveRaises(Writer)
    \/ MarkRelease(Writer)
    \/ ClearMap(Writer)
    \/ ClearUnlink(Writer)
    \/ \E p \in WorkerPaths(Writer) : ReadIsComplete(p)
    \/ \E o \in {"get_completed_files", "get_stats"} : ReadIterStart(o)
    \/ ReadIterNext
    \/ ReadReturn

SpecTrackerOps == InitTracker /\ [][NextTrackerOps]_vars

\* C28: whenever the tracker lock is not held, the entries of the checkpoint
\* document are those of the in-memory map, an absent document standing for
\* an empty map.
C28_MapEqualsDocument ==
    tlock.owner = 0 => _load(disk).ok /\ _load(disk).files = tfiles

\* C29: a read (is_complete, get_completed_files, get_stats) running while
\* mark_complete and clear write never fails.
C29_ReadsNeverFail == reader.result # "RuntimeError"

\* C30: when clear() returns, the map is empty and the document is gone:
\* is_complete is false for every key, get_completed_files is empty, and a
\* tracker constructed on the directory loads nothing; this holds as well
\* when there was no document to delete.
C30_ClearEmpties ==
    [][ClearUnlink(Writer) =>
          /\ \A p \in AllPaths : ~is_complete(tfiles', p)
          /\ get_completed_files(tfiles') = {}
          /\ ~disk'.present
          /\ _load(disk').ok
          /\ _load(disk').files = <<>>]_vars

\* C30 witness: after files were marked and saved, clear() has returned: the
\* map is empty and no document is left.
C30_Witness ==
    /\ marked[Writer] # {}
    /\ tpc[Writer] = "idle"
    /\ tfiles = <<>>
    /\ disk = NoDocument

----------------------------------------------------------------------------
(* The local relative path of an object (__main__.py, download.py) *)

\* Longest part of a key after the listing prefix, in characters.
MaxSuffix == 4

\* Prefixes as _resolve_prefix returns them (__main__.py 130-139): empty for
\* --all, a name without "/", or a path ending in "/".
Prefixes == {<<>>, <<"a">>, <<"a", "/", "a", "/">>}

\* key[len(prefix):]
drop(key, prefix) == SubSeq(key, Len(prefix) + 1, Len(key))

\* str.lstrip("/")
RECURSIVE lstrip_slash(_)
lstrip_slash(str) ==
    IF str # <<>> /\ Head(str) = "/" THEN lstrip_slash(Tail(str)) ELSE str

\* key.split("/")[-1]
last_segment(key) == LET parts == split(key, <<>>) IN parts[Len(parts)]

\* _download_sequential lines 214-216.
relative_path_sequential(key, prefix) ==
    LET relative_path == IF prefix # <<>> THEN lstrip_slash(drop(key, prefix)) ELSE key
    IN  IF relative_path = <<>> THEN last_segment(key) ELSE relative_path

\* download_worker lines 347-349.
relative_path_worker(key, prefix) ==
    LET relative_path == IF prefix # <<>> THEN lstrip_slash(drop(key, prefix)) ELSE key
    IN  IF relative_path = <<>> THEN last_segment(key) ELSE relative_path

InitRelPath ==
    /\ credentials = NoCreds
    /\ client = 0
    /\ refresh_count = 0
    /\ lock = 0
    /\ now = 0
    /\ fetches = 0
    /\ ncalls = 0
    /\ pc = [t \in Threads |-> "idle"]
    /\ op = [t \in Threads |-> "none"]
    /\ result = [t \in Threads |-> 0]
    /\ credsAtReturn = [t \in Threads |-> 0]
    /\ entry = NoEntry
    /\ path = [t \in Threads |-> "none"]
    /\ mode = "plain"
    /\ hasManager = FALSE
    /\ max_retries = 0
    /\ base_delay = 1
    /\ max_delay = 1
    /\ script = <<>>
    /\ rpc = "off"
    /\ attempt = 0
    /\ calls = 0
    /\ callClient = <<>>
    /\ rclient = 0
    /\ credential_refreshed = FALSE
    /\ refreshCalls = 0
    /\ sleeps = <<>>
    /\ last_exception = 0
    /\ outcome = [kind |-> "none", inv |-> 0]
    /\ tfiles = <<>>
    /\ disk = NoDocument
    /\ tlock = [owner |-> 0, count |-> 0]
    /\ tpc = [w \in TWorkers |-> "idle"]
    /\ targ = [w \in TWorkers |-> NoArg]
    /\ tdata = [w \in TWorkers |-> {}]
    /\ marked = [w \in TWorkers |-> {}]
    /\ crashed = FALSE
    /\ fresh = NotConstructed
    /\ fs = [p \in Paths |-> Absent]
    /\ dl = NoDownload
    /\ omode = "sequential"
    /\ oworkers = 1
    /\ behaviour = [o \in Objects |-> "unknown"]
    /\ mpc = "idle"
    /\ mcur = 0
    /\ idx = 0
    /\ queue = <<>>
    /\ wpc = [w \in PWorkers |-> "idle"]
    /\ wobj = [w \in PWorkers |-> 0]
    /\ futures = [o \in Objects |-> "none"]
    /\ olocks = NoLocks
    /\ downloaded = {}
    /\ failed = 0
    /\ failedKeys = {}
    /\ ofiles = {}
    /\ checkpointed = {}
    /\ agg = [completed |-> 0, failed |-> 0]
    /\ interrupted = FALSE
    /\ pendingAtInterrupt = {}
    /\ exit_code = NotExited
    /\ prev = NoPrev
    /\ \E p \in Prefixes, sfx \in SeqsUpTo({"a", "/"}, MaxSuffix) :
           /\ p \o sfx # <<>>
           /\ input = [fn |-> "relative_path", prefix |-> p, key |-> p \o sfx]
    /\ output = NoOutput
    /\ reader = NoReader
    /\ run = NoRun

\* Both modes compute the relative path of the listed key.
RelativePathCall ==
    /\ input.fn = "relative_path"
    /\ output = NoOutput
    /\ output' = [kind |-> "returned",
                  sequential |-> relative_path_sequential(input.key, input.prefix),
                  worker |-> relative_path_worker(input.key, input.prefix)]
    /\ UNCHANGED <<input, readerVars, runVars>>
    /\ UNCHANGED <<authVars, retryVars, trackerVars, downloadVars, orchVars>>

NextRelPath == RelativePathCall

SpecRelPath == InitRelPath /\ [][NextRelPath]_vars

\* The key without the prefix and without the "/" characters that follow it.
Remainder ==
    LET rest == SubSeq(input.key, Len(input.prefix) + 1, Len(input.key))
        n == CHOOSE i \in 0..Len(rest) :
                 /\ \A j \in 1..i : rest[j] = "/"
                 /\ i < Len(rest) => rest[i + 1] # "/"
    IN  SubSeq(rest, n + 1, Len(rest))

\* C31: the relative path of an object is its key with the listing prefix
\* and the leading "/" stripped, or the last "/"-separated segment of the key
\* when nothing remains; the sequential loop and the pool worker compute the
\* same path.
C31_RelativePath ==
    output # NoOutput =>
        /\ output.sequential =
               (IF Remainder # <<>> THEN Remainder ELSE last_segment(input.key))
        /\ output.worker = output.sequential

----------------------------------------------------------------------------
(* fetch_credentials (auth.py) *)

\* What requests.get does: it returns a response or raises a RequestException.
NetOutcomes == {"response", "ConnectionError", "Timeout"}

\* Status codes of the response.
StatusCodes == {200, 401, 403, 404, 500}

CredentialFields == {"access_key_id", "secret_access_key", "session_token"}

\* Bodies of the response: not JSON, a JSON object with some of the fields,
\* or JSON that is not an object (a list, null, a string, a number).
Bodies ==
    {[json |-> FALSE, object |-> FALSE, fields |-> {}],
     [json |-> TRUE, object |-> FALSE, fields |-> {}]}
    \cup {[json |-> TRUE, object |-> TRUE, fields |-> F] : F \in SUBSET CredentialFields}

AuthenticationError(msg) ==
    [kind |-> "AuthenticationError", message |-> msg, requests |-> 1]

\* fetch_credentials  (auth.py 76-107): one requests.get, then the checks in
\* the order of the code.  data["access_key_id"] on JSON that is not an
\* object raises TypeError, which the except KeyError clause does not catch.
fetch_credentials(net, status_code, body) ==
    IF net # "response" THEN AuthenticationError("Network error")
    ELSE IF status_code = 401 THEN AuthenticationError("Invalid username or password")
    ELSE IF status_code = 403 THEN AuthenticationError("Access denied")
    ELSE IF status_code # 200 THEN AuthenticationError("Unexpected response")
    ELSE IF ~body.json THEN AuthenticationError("Invalid response from API")
    ELSE IF ~body.object THEN [kind |-> "TypeError", message |-> "not subscriptable",
                               requests |-> 1]
    ELSE IF ~(CredentialFields \subseteq body.fields)
         THEN AuthenticationError("Missing field")
         ELSE [kind |-> "returned", message |-> "AWSCredentials", requests |-> 1]

InitFetch ==
    /\ credentials = NoCreds
    /\ client = 0
    /\ refresh_count = 0
    /\ lock = 0
    /\ now = 0
    /\ fetches = 0
    /\ ncalls = 0
    /\ pc = [t \in Threads |-> "idle"]
    /\ op = [t \in Threads |-> "none"]
    /\ result = [t \in Threads |-> 0]
    /\ credsAtReturn = [t \in Threads |-> 0]
    /\ entry = NoEntry
    /\ path = [t \in Threads |-> "none"]
    /\ mode = "plain"
    /\ hasManager = FALSE
    /\ max_retries = 0
    /\ base_delay = 1
    /\ max_delay = 1
    /\ script = <<>>
    /\ rpc = "off"
    /\ attempt = 0
    /\ calls = 0
    /\ callClient = <<>>
    /\ rclient = 0
    /\ credential_refreshed = FALSE
    /\ refreshCalls = 0
    /\ sleeps = <<>>
    /\ last_exception = 0
    /\ outcome = [kind |-> "none", inv |-> 0]
    /\ tfiles = <<>>
    /\ disk = NoDocument
    /\ tlock = [owner |-> 0, count |-> 0]
    /\ tpc = [w \in TWorkers |-> "idle"]
    /\ targ = [w \in TWorkers |-> NoArg]
    /\ tdata = [w \in TWorkers |-> {}]
    /\ marked = [w \in TWorkers |-> {}]
    /\ crashed = FALSE
    /\ fresh = NotConstructed
    /\ fs = [p \in Paths |-> Absent]
    /\ dl = NoDownload
    /\ omode = "sequential"
    /\ oworkers = 1
    /\ behaviour = [o \in Objects |-> "unknown"]
    /\ mpc = "idle"
    /\ mcur = 0
    /\ idx = 0
    /\ queue = <<>>
    /\ wpc = [w \in PWorkers |-> "idle"]
    /\ wobj = [w \in PWorkers |-> 0]
    /\ futures = [o \in Objects |-> "none"]
    /\ olocks = NoLocks
    /\ downloaded = {}
    /\ failed = 0
    /\ failedKeys = {}
    /\ ofiles = {}
    /\ checkpointed = {}
    /\ agg = [completed |-> 0, failed |-> 0]
    /\ interrupted = FALSE
    /\ pendingAtInterrupt = {}
    /\ exit_code = NotExited
    /\ prev = NoPrev
    /\ \E n \in NetOutcomes, st \in StatusCodes, b \in Bodies :
           input = [fn |-> "fetch_credentials", net |-> n, status_code |-> st, body |-> b]
    /\ output = NoOutput
    /\ reader = NoReader
    /\ run = NoRun

\* One call of fetch_credentials against the drawn behaviour of the API.
FetchCredentialsCall ==
    /\ input.fn = "fetch_credentials"
    /\ output = NoOutput
    /\ output' = fetch_credentials(input.net, input.status_code, input.body)
    /\ UNCHANGED <<input, readerVars, runVars>>
    /\ UNCHANGED <<authVars, retryVars, trackerVars, downloadVars, orchVars>>

NextFetch == FetchCredentialsCall

SpecFetch == InitFetch /\ [][NextFetch]_vars

\* The failure the claim names for the drawn behaviour, or "none".
FetchFailure ==
    CASE input.net # "response" -> "Network error"
      [] input.net = "response" /\ input.status_code = 401 -> "Invalid username or password"
      [] input.net = "response" /\ input.status_code = 403 -> "Access denied"
      [] input.net = "response" /\ input.status_code \notin {200, 401, 403} ->
             "Unexpected response"
      [] input.net = "response" /\ input.status_code = 200 /\ ~input.body.json ->
             "Invalid response from API"
      [] input.net = "response" /\ input.status_code = 200 /\ input.body.json
             /\ \E f \in CredentialFields : f \notin input.body.fields -> "Missing field"
      [] OTHER -> "none"

\* C32: fetch_credentials makes exactly one request per call; a connection
\* or timeout failure, a 401, a 403, another non-200 status, an undecodable
\* body or a body missing a credential field each gives an
\* AuthenticationError with its own message and no credentials.
C32_FetchFailures ==
    output # NoOutput =>
        /\ output.requests = 1
        /\ IF FetchFailure = "none"
           THEN output.kind = "returned"
           ELSE output.kind = "AuthenticationError" /\ output.message = FetchFailure

----------------------------------------------------------------------------
(* The checkpoint entry written for a downloaded object, by mode *)

\* _download_sequential  (__main__.py 240): tracker.mark_complete(key,
\* obj["Size"], obj["ETag"]): the ETag as S3 listed it.
mark_complete_sequential(key, size, etag) == FileStatus(key, size, etag)

\* download_worker returns DownloadResult(key, size, etag.strip('"'))
\* (download.py 381-386) and _download_parallel passes result.checksum to
\* tracker.mark_complete  (__main__.py 296).
mark_complete_parallel(key, size, etag) == FileStatus(key, size, strip_quotes(etag))

InitEntry ==
    /\ credentials = NoCreds
    /\ client = 0
    /\ refresh_count = 0
    /\ lock = 0
    /\ now = 0
    /\ fetches = 0
    /\ ncalls = 0
    /\ pc = [t \in Threads |-> "idle"]
    /\ op = [t \in Threads |-> "none"]
    /\ result = [t \in Threads |-> 0]
    /\ credsAtReturn = [t \in Threads |-> 0]
    /\ entry = NoEntry
    /\ path = [t \in Threads |-> "none"]
    /\ mode = "plain"
    /\ hasManager = FALSE
    /\ max_retries = 0
    /\ base_delay = 1
    /\ max_delay = 1
    /\ script = <<>>
    /\ rpc = "off"
    /\ attempt = 0
    /\ calls = 0
    /\ callClient = <<>>
    /\ rclient = 0
    /\ credential_refreshed = FALSE
    /\ refreshCalls = 0
    /\ sleeps = <<>>
    /\ last_exception = 0
    /\ outcome = [kind |-> "none", inv |-> 0]
    /\ tfiles = <<>>
    /\ disk = NoDocument
    /\ tlock = [owner |-> 0, count |-> 0]
    /\ tpc = [w \in TWorkers |-> "idle"]
    /\ targ = [w \in TWorkers |-> NoArg]
    /\ tdata = [w \in TWorkers |-> {}]
    /\ marked = [w \in TWorkers |-> {}]
    /\ crashed = FALSE
    /\ fresh = NotConstructed
    /\ fs = [p \in Paths |-> Absent]
    /\ dl = NoDownload
    /\ omode = "sequential"
    /\ oworkers = 1
    /\ behaviour = [o \in Objects |-> "unknown"]
    /\ mpc = "idle"
    /\ mcur = 0
    /\ idx = 0
    /\ queue = <<>>
    /\ wpc = [w \in PWorkers |-> "idle"]
    /\ wobj = [w \in PWorkers |-> 0]
    /\ futures = [o \in Objects |-> "none"]
    /\ olocks = NoLocks
    /\ downloaded = {}
    /\ failed = 0
    /\ failedKeys = {}
    /\ ofiles = {}
    /\ checkpointed = {}
    /\ agg = [completed |-> 0, failed |-> 0]
    /\ interrupted = FALSE
    /\ pendingAtInterrupt = {}
    /\ exit_code = NotExited
    /\ prev = NoPrev
    /\ \E k \in RunKeys, sz \in 0..MaxSize, et \in SeqsUpTo(EtagChars, MaxEtagLen) :
           input = [fn |-> "mark_complete", key |-> k, size |-> sz, etag |-> et]
    /\ output = NoOutput
    /\ reader = NoReader
    /\ run = NoRun

\* The same downloaded object is recorded once by each mode.
MarkCompleteCall ==
    /\ input.fn = "mark_complete"
    /\ output = NoOutput
    /\ output' = [kind |-> "entries",
                  sequential |-> mark_complete_sequential(input.key, input.size, input.etag),
                  parallel |-> mark_complete_parallel(input.key, input.size, input.etag)]
    /\ UNCHANGED <<input, readerVars, runVars>>
    /\ UNCHANGED <<authVars, retryVars, trackerVars, downloadVars, orchVars>>

NextEntry == MarkCompleteCall

SpecEntry == InitEntry /\ [][NextEntry]_vars

\* C38: for the same downloaded object the sequential and the parallel mode
\* record the same checkpoint entry: same path, size and checksum value.
C38_SameEntry ==
    output # NoOutput =>
        /\ output.sequential.path = output.parallel.path
        /\ output.sequential.size = output.parallel.size
        /\ output.sequential.checksum = output.parallel.checksum

=============================================================================
